---------------------------- MODULE Spec2Model ----------------------------
(***************************************************************************)
(* A model of the KPA performance-monitoring application (BigAlzz/smon):   *)
(* the calendar/period engine (core/utils_time.py, core/views.py), the     *)
(* FinancialYear activation rule (core/models.py) and the ProgressUpdate   *)
(* ledger with its write paths (core/api_views.py, core/views.py,          *)
(* core/views_manager.py, progress/models.py, progress/forms.py).          *)
(*                                                                         *)
(* Dates are day ordinals (1 = 1 January of BaseYear); the calendar        *)
(* operators convert between ordinals and (year, month, day).              *)
(***************************************************************************)
EXTENDS Integers, Sequences, FiniteSets, TLC

VARIABLES
    \* --- calendar engine (pure functions applied to drawn inputs)
    fin_year,     \* the financial year [start_date, end_date] under evaluation
    as_of,        \* the as-of date / period_end handed to the calendar functions
    today,        \* the clock: "today" of the lock policy and of the views
    cfg,          \* settings.KPA_SETTINGS['QUARTER_LOCK']: [enabled, grace_days]
    out,          \* the results the calendar functions returned
    \* --- FinancialYear table
    years,        \* year id -> "absent" | [is_active |-> BOOLEAN]
    \* --- ProgressUpdate ledger
    rows,         \* the set of ProgressUpdate rows
    nextId,       \* next primary key
    last,         \* the most recent request and its response
    reqs,         \* draft-save requests in flight (concurrency specification)
    \* --- reporting
    plan          \* the plan item under report: its targets and its budget

timeVars   == <<fin_year, as_of, today, cfg, out>>
fyVars     == <<years>>
ledgerVars == <<rows, nextId, last, reqs>>
planVars   == <<plan>>
vars       == <<fin_year, as_of, today, cfg, out, years, rows, nextId, last, reqs, plan>>

-----------------------------------------------------------------------------
(* Calendar: datetime.date as a day ordinal.                               *)

\* the calendar years the model's dates lie in
CalendarYears == 2023..2027
BaseYear == CHOOSE y \in CalendarYears : \A z \in CalendarYears : y <= z

IsLeap(y) == (y % 4 = 0 /\ y % 100 # 0) \/ y % 400 = 0

DaysInYear(y) == IF IsLeap(y) THEN 366 ELSE 365

\* calendar.monthrange(y, m)[1]
DaysInMonth(y, m) ==
    IF m = 2 THEN (IF IsLeap(y) THEN 29 ELSE 28)
    ELSE IF m \in {4, 6, 9, 11} THEN 30 ELSE 31

\* days from 1 January of BaseYear to 1 January of year y
DaysBeforeYear(y) ==
    365 * (y - BaseYear) + Cardinality({z \in BaseYear..(y - 1) : IsLeap(z)})

\* days of a common year before the first of each month
CumulativeDays == <<0, 31, 59, 90, 120, 151, 181, 212, 243, 273, 304, 334>>

\* days of year y before the first of month m
DaysBeforeMonth(y, m) == CumulativeDays[m] + (IF m > 2 /\ IsLeap(y) THEN 1 ELSE 0)

\* date(y, m, d)
Date(y, m, d) == DaysBeforeYear(y) + DaysBeforeMonth(y, m) + d

\* the last day the calendar covers
LastOrdinal == DaysBeforeYear(BaseYear + Cardinality(CalendarYears))

\* date.year, date.month, date.day of every ordinal, tabulated once
\* (@@ makes the table an explicit function)
CalendarTable ==
    [n \in 1..LastOrdinal |->
        LET y == CHOOSE z \in CalendarYears :
                     DaysBeforeYear(z) < n /\ n <= DaysBeforeYear(z) + DaysInYear(z)
            k == n - DaysBeforeYear(y)
            m == CHOOSE z \in 1..12 :
                     DaysBeforeMonth(y, z) < k /\ k <= DaysBeforeMonth(y, z) + DaysInMonth(y, z)
        IN  <<y, m, k - DaysBeforeMonth(y, m)>>] @@ <<>>

\* the ordinal of the day before the first of month m of year y, tabulated once
MonthTable ==
    [y \in CalendarYears |-> [m \in 1..12 |-> DaysBeforeYear(y) + DaysBeforeMonth(y, m)] @@ <<>>] @@ <<>>

YearOf(n)  == CalendarTable[n][1]
MonthOf(n) == CalendarTable[n][2]
DayOf(n)   == CalendarTable[n][3]

Min(a, b) == IF a < b THEN a ELSE b

Days == 1..LastOrdinal

\* dt + relativedelta(months=k), for every date and month count: the month
\* moves by k, the day is clamped to the length of the resulting month
\* (relativedelta.__radd__)
AddMonthsOf ==
    [dt \in Days |-> [k \in 0..24 |->
        LET t == (YearOf(dt) * 12 + (MonthOf(dt) - 1)) + k
            y == t \div 12
            m == (t % 12) + 1
        IN  MonthTable[y][m] + Min(DayOf(dt), DaysInMonth(y, m))]]

AddMonths(dt, k) == AddMonthsOf[dt][k]

\* relativedelta(dt1, dt2) for dt1 >= dt2, as rd.years * 12 + rd.months: the
\* calendar month difference, reduced by one when dt2 moved by it overshoots dt1
MonthsBetweenOf ==
    [dt1 \in Days |-> [dt2 \in Days |->
        LET months == (YearOf(dt1) - YearOf(dt2)) * 12 + (MonthOf(dt1) - MonthOf(dt2))
        IN  IF dt1 < AddMonths(dt2, months) THEN months - 1 ELSE months]]

MonthsBetween(dt1, dt2) == MonthsBetweenOf[dt1][dt2]

-----------------------------------------------------------------------------
(* core/utils_time.py and the helpers of core/views.py                     *)

\* a months_elapsed_in_fy that forgets to clamp as_of to the end of the year
months_elapsed_in_fy_unclamped(start, end, asof) ==
    IF asof < start THEN 0 ELSE MonthsBetween(asof, start) + 1

\* core/utils_time.py months_elapsed_in_fy(start, end, as_of)
months_elapsed_in_fy(start, end, asof) ==
    IF asof < start THEN 0
    ELSE LET a == IF asof > end THEN end ELSE asof
         IN  MonthsBetween(a, start) + 1

\* core/views.py months_elapsed(fin_year, as_of)
months_elapsed(fy, asof) ==
    IF asof < fy.start_date THEN 0
    ELSE LET a == IF asof > fy.end_date THEN fy.end_date ELSE asof
         IN  MonthsBetween(a, fy.start_date) + 1

\* core/views.py quarters_elapsed(fin_year, as_of): min(4, (m + 2) // 3)
quarters_elapsed(fy, asof) == Min(4, (months_elapsed(fy, asof) + 2) \div 3)

\* quarter_end_for, lines 25-30: the quarter index of a month count m
q_index_for(m) == IF m <= 0 THEN 1 ELSE Min(4, (m + 2) \div 3)

\* core/utils_time.py quarter_end_for(fin_year, as_of):
\*   q_start = start + relativedelta(months=(q_index - 1) * 3)
\*   q_end   = q_start + relativedelta(months=3, days=-1), at most end
quarter_end_for(fy, asof) ==
    Min(AddMonths(AddMonths(fy.start_date,
                            (q_index_for(months_elapsed_in_fy(fy.start_date, fy.end_date, asof)) - 1) * 3),
                  3) - 1,
        fy.end_date)

\* cfg.get('GRACE_DAYS', 14)
DefaultGraceDays == 14

\* an is_period_locked that already locks on the last grace day (>= for >)
is_period_locked_on_last_day(fy, period_end, t, c) ==
    IF ~c.enabled THEN FALSE
    ELSE t >= quarter_end_for(fy, period_end) + c.grace_days

\* core/utils_time.py is_period_locked(fin_year, period_end, today) under the
\* QUARTER_LOCK settings c
is_period_locked(fy, period_end, t, c) ==
    IF ~c.enabled THEN FALSE
    ELSE t > quarter_end_for(fy, period_end) + c.grace_days


-----------------------------------------------------------------------------
(* The calendar engine applied to drawn inputs.                            *)

\* days of as_of examined before fin_year.start_date and after fin_year.end_date
LeadDays == 35
TailDays == 35

FY(y1, m1, d1, y2, m2, d2) == [start_date |-> Date(y1, m1, d1), end_date |-> Date(y2, m2, d2)]

\* FinancialYear rows: start_date and end_date are unvalidated DateFields
\* (core/models.py), so besides the 1 April - 31 March convention a year may
\* start on any day and span any number of months.
FinYears ==
    { FY(2024, 4, 1, 2025, 3, 31),      \* the South African convention (the tests' year)
      FY(2024, 1, 1, 2024, 12, 31),     \* a calendar (leap) year
      FY(2024, 1, 31, 2025, 1, 30),     \* 12 months from a 31st
      FY(2024, 11, 30, 2025, 11, 29),   \* 12 months from a 30th, across February
      FY(2024, 8, 15, 2025, 8, 14),     \* 12 months from mid-month
      FY(2024, 4, 1, 2025, 6, 30),      \* a 15-month year
      FY(2024, 4, 1, 2024, 8, 31) }     \* a 5-month year

\* GRACE_DAYS values of the settings
GraceChoices == {0, DefaultGraceDays}

LockConfigs == [enabled : BOOLEAN, grace_days : GraceChoices]

\* today, in days after the end of the quarter of as_of
TodayOffsets == {0, 1, 13, 14, 15}

\* what the calendar functions return for the current inputs
Evaluate(fy, asof, t, c) ==
    [ m      |-> months_elapsed_in_fy(fy.start_date, fy.end_date, asof),
      mv     |-> months_elapsed(fy, asof),
      q      |-> quarters_elapsed(fy, asof),
      q_end  |-> quarter_end_for(fy, asof),
      locked |-> is_period_locked(fy, asof, t, c) ]

\* no request served yet
NoRequest == [op |-> "none"]

IdleYears  == <<>>
IdlePlan   == <<>>
IdleLedger == rows = {} /\ nextId = 1 /\ last = NoRequest /\ reqs = <<>> /\ plan = IdlePlan

InitTime ==
    /\ fin_year \in FinYears
    /\ as_of = fin_year.start_date - LeadDays
    /\ today = as_of
    /\ cfg \in LockConfigs
    /\ out = Evaluate(fin_year, as_of, today, cfg)
    /\ years = IdleYears
    /\ IdleLedger

\* the as-of date advances by a day and the functions are evaluated again
NextAsOf ==
    /\ as_of < fin_year.end_date + TailDays
    /\ as_of' = as_of + 1
    /\ today' = as_of'
    /\ out' = Evaluate(fin_year, as_of', today', cfg)
    /\ UNCHANGED <<fin_year, cfg, years, rows, nextId, last, reqs, plan>>

\* is_period_locked is called with an explicit today
SetToday ==
    /\ \E d \in TodayOffsets :
          today' = quarter_end_for(fin_year, as_of) + d
    /\ out' = Evaluate(fin_year, as_of, today', cfg)
    /\ UNCHANGED <<fin_year, as_of, cfg, years, rows, nextId, last, reqs, plan>>

NextTime == NextAsOf \/ SetToday

SpecTime == InitTime /\ [][NextTime]_vars


-----------------------------------------------------------------------------
(* core/models.py FinancialYear: the table and its save().                 *)

\* the number of FinancialYear rows the model can hold
NumYears == 5

YearIds == 1..NumYears

NoYear == [exists |-> FALSE, is_active |-> FALSE]

\* a save() that writes its own row and leaves the others alone
FinancialYear_save_own_row_only(tbl, y, active) ==
    [tbl EXCEPT ![y] = [exists |-> TRUE, is_active |-> active]]

\* FinancialYear.save(): if self.is_active, every active row is updated to
\* is_active = False; then the row itself is written (created or updated).
FinancialYear_save(tbl, y, active) ==
    LET cleared == IF active
                   THEN [z \in DOMAIN tbl |->
                            IF tbl[z].exists /\ tbl[z].is_active
                            THEN [tbl[z] EXCEPT !.is_active = FALSE]
                            ELSE tbl[z]]
                   ELSE tbl
    IN  [cleared EXCEPT ![y] = [exists |-> TRUE, is_active |-> active]]

ActiveYears == {y \in YearIds : years[y].exists /\ years[y].is_active}

InitFY ==
    /\ years = [y \in YearIds |-> NoYear]
    /\ fin_year = FY(2024, 4, 1, 2025, 3, 31)
    /\ as_of = fin_year.start_date
    /\ today = as_of
    /\ cfg = [enabled |-> FALSE, grace_days |-> DefaultGraceDays]
    /\ out = Evaluate(fin_year, as_of, today, cfg)
    /\ IdleLedger

\* a FinancialYear is created or updated through save() (admin form, REST
\* endpoint, FinancialYear.objects.create), with is_active true or false
SaveFinancialYear ==
    \E y \in YearIds, active \in BOOLEAN :
        /\ years' = FinancialYear_save(years, y, active)
        /\ last' = [op |-> "fy_save", id |-> y, is_active |-> active]
        /\ UNCHANGED <<fin_year, as_of, today, cfg, out, rows, nextId, reqs, plan>>

NextFY == SaveFinancialYear

SpecFY == InitFY /\ [][NextFY]_vars

\* C1: after any sequence of FinancialYear saves (creates and updates, with
\* is_active true or false) at most one FinancialYear is active, and a save
\* with is_active = true leaves the saved year active and every other year
\* inactive.
C1_OneActiveYear ==
    /\ Cardinality(ActiveYears) <= 1
    /\ (last.op = "fy_save" /\ last.is_active) => ActiveYears = {last.id}

\* a year is activated while another year was active, and two more exist
C1_Witness ==
    /\ last.op = "fy_save" /\ last.is_active
    /\ ActiveYears = {last.id}
    /\ Cardinality({y \in YearIds : years[y].exists /\ ~years[y].is_active}) >= 2

-----------------------------------------------------------------------------
(* progress/models.py ProgressUpdate: the ledger and its write paths.      *)

\* the number of ProgressUpdate rows ever created in a run
MaxRows == 2

\* Targets of the plan item (one suffices: every lookup filters on the target)
Targets == {"T1"}

\* the financial year of the target's KPA (target.plan_item.kpa.financial_year)
KpaYear == FY(2024, 4, 1, 2025, 3, 31)

\* the days on which requests arrive: 2024-07-10 is inside the grace period of
\* the quarter that ended 2024-06-30, 2024-07-20 is after it
ClockDays == <<Date(2024, 7, 10), Date(2024, 7, 20)>>

Period(ps, pe) == [ps |-> ps, pe |-> pe]

\* the first quarter of KpaYear, the period of the repository's API tests
FirstQuarter == Period(Date(2024, 4, 1), Date(2024, 6, 30))

\* Target.get_current_period(): self.periodicity holds 'MONTHLY', 'QUARTERLY',
\* 'ANNUAL' or 'MILESTONE' and is compared with 'monthly', 'quarterly',
\* 'annually', so the else branch is taken: start = end = today
get_current_period(t) == Period(t, t)

\* the periods a request may name
PayloadPeriods(t) == {FirstQuarter, get_current_period(t)}

\* actual_value and narrative of a request
Contents == { [actual_value |-> 5, narrative |-> "A"],
              [actual_value |-> 7, narrative |-> "B"] }

\* the defaults of get_or_create in manager_progress_update_view
DefaultContent == [actual_value |-> 0, narrative |-> ""]

\* is_approved of a request: not sent, or sent as true
ApprovedFlags == {"unset", "true"}

\* a request body. iso: whether datetime.fromisoformat accepts the period_end
\* text ('2024-06-30'); the serializer's DateField also accepts '2024-6-30',
\* which fromisoformat rejects with ValueError.
Payloads(t) ==
    [target : Targets, period : PayloadPeriods(t), iso : BOOLEAN, content : Contents,
     is_submitted : BOOLEAN, is_approved : ApprovedFlags]

\* a ProgressUpdate row
Row(id, tgt, per, content, sub, app) ==
    [id |-> id, target |-> tgt, ps |-> per.ps, pe |-> per.pe,
     actual_value |-> content.actual_value, narrative |-> content.narrative,
     is_submitted |-> sub, is_approved |-> app, is_active |-> TRUE]

\* rows of rs with the key (target, period_start, period_end)
KeyRows(rs, tgt, per) == {r \in rs : r.target = tgt /\ r.ps = per.ps /\ r.pe = per.pe}

RowById(rs, id) == CHOOSE r \in rs : r.id = id

\* what a handler returns: a status and the table it leaves
Outcome(status, rs) == [status |-> status, rows |-> rs]

\* rs with row id replaced by new
ReplaceRow(rs, id, new) == {IF r.id = id THEN new ELSE r : r \in rs}

\* a ProgressUpdate without Meta.unique_together
unique_together_absent(rs, tgt, per, id) == TRUE

\* Meta.unique_together = ['target', 'period_start', 'period_end']: no row
\* other than row id (0: a new row) has the key, whether active or not,
\* submitted or not
unique_together(rs, tgt, per, id) == \A r \in KeyRows(rs, tgt, per) : r.id = id

\* INSERT: the database raises IntegrityError on the unique constraint
db_insert(rs, row) ==
    IF unique_together(rs, row.target, [ps |-> row.ps, pe |-> row.pe], 0)
    THEN Outcome("ok", rs \cup {row})
    ELSE Outcome("integrity_error", rs)

\* UPDATE of row id: the same constraint
db_update(rs, id, new) ==
    IF unique_together(rs, new.target, [ps |-> new.ps, pe |-> new.pe], id)
    THEN Outcome("ok", ReplaceRow(rs, id, new))
    ELSE Outcome("integrity_error", rs)

\* ProgressUpdateSerializer(...).is_valid(): a ModelSerializer carries a
\* UniqueTogetherValidator for the model's unique_together; it rejects the
\* data when another row than the serializer's instance (0: none) has the key
serializer_is_valid(rs, p, instance) == unique_together(rs, p.target, p.period, instance)

\* ProgressUpdateForm(...).is_valid(): a ModelForm runs validate_unique() on
\* unique_together (target, period_start, period_end are all form fields)
form_is_valid(rs, p, instance) == unique_together(rs, p.target, p.period, instance)

\* is_approved as the serializer stores it: the model default (False) on
\* create, the old value on update, when the request does not send it
approved_value(p, old) == IF p.is_approved = "unset" THEN old ELSE p.is_approved = "true"

\* setattr(existing, k, v) for the validated data, then existing.save()
apply_validated(r, p, sub) ==
    [r EXCEPT !.target = p.target, !.ps = p.period.ps, !.pe = p.period.pe,
              !.actual_value = p.content.actual_value, !.narrative = p.content.narrative,
              !.is_submitted = sub, !.is_approved = approved_value(p, r.is_approved)]

\* save_draft, the quarter-lock step: the lock is tested only when
\* datetime.fromisoformat parses period_end; any exception is swallowed
draft_locked(p, t, c) == p.iso /\ is_period_locked(KpaYear, p.period.pe, t, c)

\* save_draft, the lookup: the draft rows of the key, .first() of which is
\* updated
find_existing_draft(rs, p) ==
    {r \in KeyRows(rs, p.target, p.period) : ~r.is_submitted /\ r.is_active}

\* save_draft without line 99: the request's is_submitted reaches the row
draft_row_as_requested(id, p) ==
    Row(id, p.target, p.period, p.content, p.is_submitted, approved_value(p, FALSE))

\* the row save_draft inserts: payload['is_submitted'] = False
draft_row(id, p) == Row(id, p.target, p.period, p.content, FALSE, approved_value(p, FALSE))

\* save_draft, the write: update of the row found, or insert
draft_write(rs, id, p, found) ==
    IF found # {}
    THEN db_update(rs, (CHOOSE r \in found : TRUE).id,
                   apply_validated(CHOOSE r \in found : TRUE, p, FALSE))
    ELSE db_insert(rs, draft_row(id, p))

\* POST /api/progress-updates/draft/ run from start to end
save_draft(rs, id, p, t, c) ==
    IF draft_locked(p, t, c) THEN Outcome("locked", rs)
    ELSE IF ~serializer_is_valid(rs, p, 0) THEN Outcome("invalid", rs)
    ELSE draft_write(rs, id, p, find_existing_draft(rs, p))

\* update_wizard_view POST: form.is_valid(), the lock check, then the insert
\* with is_submitted = True
update_wizard_view(rs, id, p, t, c) ==
    IF ~form_is_valid(rs, p, 0) THEN Outcome("invalid", rs)
    ELSE IF is_period_locked(KpaYear, p.period.pe, t, c) THEN Outcome("locked", rs)
    ELSE db_insert(rs, Row(id, p.target, p.period, p.content, TRUE, FALSE))

\* ProgressUpdate.objects.get_or_create for the current period, run on every
\* visit of manager_progress_update_view
get_or_create(rs, id, tgt, t) ==
    IF KeyRows(rs, tgt, get_current_period(t)) # {} THEN rs
    ELSE rs \cup {Row(id, tgt, get_current_period(t), DefaultContent, FALSE, FALSE)}

\* the row get_or_create returns
current_update(rs, tgt, t) == CHOOSE r \in KeyRows(rs, tgt, get_current_period(t)) : TRUE

\* manager_progress_update_view POST, form_type 'progress', on the table
\* get_or_create left: ProgressUpdateForm(instance=progress_update) is saved
\* when valid; is_approved is not a form field
save_progress_form(rs, p, t) ==
    IF ~form_is_valid(rs, p, current_update(rs, p.target, t).id) THEN Outcome("invalid", rs)
    ELSE db_update(rs, current_update(rs, p.target, t).id,
                   [apply_validated(current_update(rs, p.target, t), p, p.is_submitted)
                      EXCEPT !.is_approved = current_update(rs, p.target, t).is_approved])

manager_progress_update_view(rs, id, p, t) ==
    save_progress_form(get_or_create(rs, id, p.target, t), p, t)

\* ProgressUpdateViewSet.create (POST /api/progress-updates/)
viewset_create(rs, id, p) ==
    IF ~serializer_is_valid(rs, p, 0) THEN Outcome("invalid", rs)
    ELSE db_insert(rs, Row(id, p.target, p.period, p.content, p.is_submitted,
                           approved_value(p, FALSE)))

\* ProgressUpdateViewSet.update (PUT /api/progress-updates/<id>/)
viewset_update(rs, id, p) ==
    IF ~serializer_is_valid(rs, p, id) THEN Outcome("invalid", rs)
    ELSE db_update(rs, id, apply_validated(RowById(rs, id), p, p.is_submitted))

\* ProgressUpdateViewSet.destroy (DELETE /api/progress-updates/<id>/)
viewset_destroy(rs, id) == Outcome("ok", {r \in rs : r.id # id})

\* manager_progress_approval_view, action 'approve'
approve(r) == [r EXCEPT !.is_approved = TRUE]

\* manager_progress_approval_view, action 'reject'
reject(r) == [r EXCEPT !.is_submitted = FALSE, !.is_approved = FALSE]

-----------------------------------------------------------------------------
(* The ledger served by one request at a time.                             *)

\* what the last request was and how it ended
Request(op, status, p) == [op |-> op, status |-> status, period |-> p.period]

DraftRequest(status, p) ==
    [op |-> "draft", status |-> status, period |-> p.period, content |-> p.content,
     is_submitted |-> p.is_submitted]

\* requests whose unused fields are left at one value
PlainPayloads(t) == {p \in Payloads(t) : p.iso /\ p.is_approved = "unset"}

FormPayloads(t) == {p \in PlainPayloads(t) : ~p.is_submitted}

HasId(rs, id) == \E r \in rs : r.id = id

\* the handler's outcome is committed and the request recorded
Commit(res, request) ==
    /\ HasId(res.rows, nextId) => nextId <= MaxRows
    /\ rows' = res.rows
    /\ nextId' = IF HasId(res.rows, nextId) THEN nextId + 1 ELSE nextId
    /\ last' = request
    /\ UNCHANGED <<fin_year, as_of, today, cfg, out, years, reqs, plan>>

LockOn == [enabled : BOOLEAN, grace_days : {DefaultGraceDays}]

InitLedger ==
    /\ fin_year = KpaYear
    /\ as_of = ClockDays[1]
    /\ today = ClockDays[1]
    /\ cfg \in LockOn
    /\ out = Evaluate(fin_year, as_of, today, cfg)
    /\ years = IdleYears
    /\ IdleLedger

\* the server's date moves on
Tick ==
    /\ \E i \in 1..(Len(ClockDays) - 1) : today = ClockDays[i] /\ today' = ClockDays[i + 1]
    /\ UNCHANGED <<fin_year, as_of, cfg, out, years, rows, nextId, last, reqs, plan>>

SaveDraft ==
    \E p \in Payloads(today) :
        \E res \in {save_draft(rows, nextId, p, today, cfg)} :
            Commit(res, DraftRequest(res.status, p))

WizardSubmit ==
    \E p \in FormPayloads(today) :
        \E res \in {update_wizard_view(rows, nextId, p, today, cfg)} :
            Commit(res, Request("wizard", res.status, p))

\* GET of the manager's update page
ManagerVisit ==
    \E tgt \in Targets :
        /\ KeyRows(rows, tgt, get_current_period(today)) = {}
        /\ Commit(Outcome("ok", get_or_create(rows, nextId, tgt, today)),
                  [op |-> "visit", status |-> "ok"])

ManagerPost ==
    \E p \in PlainPayloads(today) :
        \E res \in {manager_progress_update_view(rows, nextId, p, today)} :
            Commit(res, Request("manager", res.status, p))

RestCreate ==
    \E p \in Payloads(today) :
        /\ p.iso
        /\ \E res \in {viewset_create(rows, nextId, p)} :
              Commit(res, Request("create", res.status, p))

RestUpdate ==
    \E r \in rows, p \in Payloads(today) :
        /\ p.iso
        /\ \E res \in {viewset_update(rows, r.id, p)} :
              Commit(res, Request("update", res.status, p))

RestDestroy ==
    \E r \in rows :
        Commit(viewset_destroy(rows, r.id), [op |-> "destroy", status |-> "ok"])

Approve ==
    \E r \in rows :
        /\ r.is_active /\ r.is_submitted
        /\ Commit(Outcome("ok", ReplaceRow(rows, r.id, approve(r))),
                  [op |-> "approve", status |-> "ok", id |-> r.id])

Reject ==
    \E r \in rows :
        /\ r.is_active /\ r.is_submitted
        /\ Commit(Outcome("ok", ReplaceRow(rows, r.id, reject(r))),
                  [op |-> "reject", status |-> "ok", id |-> r.id])

\* the admin clears is_active (soft delete)
SoftDelete ==
    \E r \in rows :
        /\ r.is_active
        /\ Commit(Outcome("ok", ReplaceRow(rows, r.id, [r EXCEPT !.is_active = FALSE])),
                  [op |-> "soft_delete", status |-> "ok"])

NextLedger ==
    \/ Tick
    \/ SaveDraft
    \/ WizardSubmit
    \/ ManagerVisit
    \/ ManagerPost
    \/ RestCreate
    \/ RestUpdate
    \/ RestDestroy
    \/ Approve
    \/ Reject
    \/ SoftDelete

SpecLedger == InitLedger /\ [][NextLedger]_vars

-----------------------------------------------------------------------------
(* Claims about the ledger served by one request at a time (SpecLedger).   *)

\* the requests that write a ProgressUpdate for a period they name
WriteOps == {"draft", "wizard", "manager", "create", "update"}

RowPeriod(r) == Period(r.ps, r.pe)

HasContent(r, content) ==
    r.actual_value = content.actual_value /\ r.narrative = content.narrative

\* C2: with the quarter lock enabled and today past the quarter's end plus
\* the grace days, every write for a period of that quarter is refused and
\* leaves the ledger as it was, on every write path (draft API, which answers
\* 423, wizard, manager form, REST endpoints).
C2_LockedOnEveryPath ==
    [][ (/\ last'.op \in WriteOps
         /\ today' = today
         /\ is_period_locked(KpaYear, last'.period.pe, today, cfg))
        => (/\ last'.status # "ok"
            /\ last'.op = "draft" => last'.status = "locked"
            /\ rows' = rows) ]_vars

\* C3: a draft save that follows a successful draft save for the same
\* (target, period_start, period_end) with other values succeeds, and leaves
\* exactly one row for the key, holding the values of the second call.
C3_SecondDraftSaveUpdates ==
    [][ (/\ last.op = "draft" /\ last.status = "ok"
         /\ last'.op = "draft" /\ last'.status # "locked"
         /\ last'.period = last.period
         /\ last'.content # last.content)
        => (/\ last'.status = "ok"
            /\ \A tgt \in Targets :
                  /\ Cardinality(KeyRows(rows', tgt, last'.period)) = 1
                  /\ \A r \in KeyRows(rows', tgt, last'.period) :
                        HasContent(r, last'.content)) ]_vars

\* C5: whatever requests are served, no two active rows have the same
\* (target, period_start, period_end).
C5_OneActiveRowPerKey ==
    \A r1 \in rows, r2 \in rows :
        (/\ r1.is_active /\ r2.is_active
         /\ r1.target = r2.target /\ r1.ps = r2.ps /\ r1.pe = r2.pe) => r1 = r2

\* a second submission for a key that an active row holds was refused
C5_Witness ==
    /\ last.op = "wizard" /\ last.status = "invalid"
    /\ \E r \in rows : r.is_active /\ RowPeriod(r) = last.period
    /\ \E r \in rows : ~r.is_active

\* C6: a rejection leaves the update unsubmitted and unapproved, and the
\* draft save that follows for its key succeeds and updates that row in
\* place.
C6_RejectThenRevise ==
    [][ /\ (last'.op = "reject" /\ last' # last)
            => \E r \in rows' : r.id = last'.id /\ ~r.is_submitted /\ ~r.is_approved
        /\ (/\ last.op = "reject"
             /\ last'.op = "draft" /\ last'.status # "locked"
             /\ last'.period = RowPeriod(RowById(rows, last.id)))
            => (/\ last'.status = "ok"
                /\ {r.id : r \in rows'} = {r.id : r \in rows}
                /\ HasContent(RowById(rows', last.id), last'.content)) ]_vars

\* C7: every row a draft save writes is persisted with is_submitted false,
\* whatever is_submitted the request carries.
C7_DraftSavePersistsUnsubmitted ==
    [][ last'.op = "draft" => \A r \in rows' \ rows : ~r.is_submitted ]_vars

\* a request that carried is_submitted true was saved as a draft
C7_Witness ==
    /\ last.op = "draft" /\ last.status = "ok" /\ last.is_submitted
    /\ \E r \in rows :
          RowPeriod(r) = last.period /\ HasContent(r, last.content) /\ ~r.is_submitted

-----------------------------------------------------------------------------
(* Draft saves of several clients, each running as its own request: the    *)
(* table is read at validation and at the lookup, and written at the end.  *)

\* the clients that autosave
NumClients == 2

Clients == 1..NumClients

IdleRequest == [pc |-> "idle"]

\* the request has been answered
Answered(p, status, overlap) ==
    [pc |-> "done", p |-> p, status |-> status, overlap |-> overlap]

\* a request between its validation and its write
InFlight(c) == reqs[c].pc \in {"lookup", "write"}

InitRace ==
    /\ fin_year = KpaYear
    /\ as_of = ClockDays[1]
    /\ today = ClockDays[1]
    /\ cfg \in LockOn
    /\ out = Evaluate(fin_year, as_of, today, cfg)
    /\ years = IdleYears
    /\ rows = {}
    /\ nextId = 1
    /\ last = NoRequest
    /\ reqs = [c \in Clients |-> IdleRequest]
    /\ plan = IdlePlan

\* save_draft up to ser.is_valid(): the lock check and the validation, which
\* reads the table
DraftValidate(c) ==
    /\ reqs[c].pc = "idle"
    /\ \E p \in PlainPayloads(today), overlap \in {\E d \in Clients \ {c} : InFlight(d)} :
          reqs' = [reqs EXCEPT ![c] =
                      IF draft_locked(p, today, cfg) THEN Answered(p, "locked", overlap)
                      ELSE IF ~serializer_is_valid(rows, p, 0) THEN Answered(p, "invalid", overlap)
                      ELSE [pc |-> "lookup", p |-> p, overlap |-> overlap]]
    /\ UNCHANGED <<fin_year, as_of, today, cfg, out, years, rows, nextId, last, plan>>

\* save_draft, the lookup of the existing draft
DraftLookup(c) ==
    /\ reqs[c].pc = "lookup"
    /\ reqs' = [reqs EXCEPT ![c] = [pc |-> "write", p |-> reqs[c].p, overlap |-> reqs[c].overlap,
                                    found |-> find_existing_draft(rows, reqs[c].p)]]
    /\ UNCHANGED <<fin_year, as_of, today, cfg, out, years, rows, nextId, last, plan>>

\* save_draft, existing.save() of the row as it was read, or ser.save()
DraftWrite(c) ==
    /\ reqs[c].pc = "write"
    /\ \E res \in {draft_write(rows, nextId, reqs[c].p, reqs[c].found)} :
          /\ HasId(res.rows, nextId) => nextId <= MaxRows
          /\ rows' = res.rows
          /\ nextId' = IF HasId(res.rows, nextId) THEN nextId + 1 ELSE nextId
          /\ reqs' = [reqs EXCEPT ![c] = Answered(reqs[c].p, res.status, reqs[c].overlap)]
          /\ last' = [op |-> "draft", status |-> res.status, client |-> c]
    /\ UNCHANGED <<fin_year, as_of, today, cfg, out, years, plan>>

\* the client has its answer and may save again
DraftReturn(c) ==
    /\ reqs[c].pc = "done"
    /\ reqs' = [reqs EXCEPT ![c] = IdleRequest]
    /\ UNCHANGED <<fin_year, as_of, today, cfg, out, years, rows, nextId, last, plan>>

NextRace ==
    \/ Tick
    \/ \E c \in Clients : DraftValidate(c)
    \/ \E c \in Clients : DraftLookup(c)
    \/ \E c \in Clients : DraftWrite(c)
    \/ \E c \in Clients : DraftReturn(c)

SpecRace == InitRace /\ [][NextRace]_vars

\* C4: when two draft saves for the same (target, period_start, period_end)
\* run concurrently, however their lookups and writes interleave, both are
\* answered without an error and exactly one row is left for the key, with
\* the values of the save that wrote last.
C4_ConcurrentDraftSaves ==
    \A c \in Clients : \A d \in Clients \ {c} :
        (/\ reqs[c].pc = "done" /\ reqs[d].pc = "done"
         /\ reqs[c].overlap \/ reqs[d].overlap
         /\ reqs[c].p.target = reqs[d].p.target /\ reqs[c].p.period = reqs[d].p.period
         /\ reqs[c].status # "locked" /\ reqs[d].status # "locked"
         /\ last.op = "draft" /\ last.client = c)
        => (/\ reqs[c].status = "ok" /\ reqs[d].status = "ok"
            /\ Cardinality(KeyRows(rows, reqs[c].p.target, reqs[c].p.period)) = 1
            /\ \A r \in KeyRows(rows, reqs[c].p.target, reqs[c].p.period) :
                  HasContent(r, reqs[c].p.content))

-----------------------------------------------------------------------------
(* decimal.Decimal values of core/views.py and progress/models.py, kept as *)
(* exact fractions in lowest terms with a positive denominator (the        *)
(* context's 28 significant digits round a quotient in its 28th digit).    *)

RECURSIVE Gcd(_, _)
Gcd(a, b) == IF b = 0 THEN a ELSE Gcd(b, a % b)

Abs(n) == IF n < 0 THEN -n ELSE n

\* the fraction n / d, d # 0
Dec(n, d) ==
    [n |-> (IF d < 0 THEN -n ELSE n) \div Gcd(Abs(n), Abs(d)),
     d |-> Abs(d) \div Gcd(Abs(n), Abs(d))]

\* Decimal('0.00')
DecZero == [n |-> 0, d |-> 1]

DecAdd(x, y) == Dec(x.n * y.d + y.n * x.d, x.d * y.d)
DecSub(x, y) == Dec(x.n * y.d - y.n * x.d, x.d * y.d)
DecMul(x, y) == Dec(x.n * y.n, x.d * y.d)
DecDiv(x, y) == Dec(x.n * y.d, x.d * y.n)
DecGeq(x, y) == x.n * y.d >= y.n * x.d
DecGt(x, y)  == x.n * y.d > y.n * x.d
DecLt(x, y)  == x.n * y.d < y.n * x.d

-----------------------------------------------------------------------------
(* core/views.py: percent and RAG classification.                          *)

\* an exception that leaves the function
Raised(exception) == [raised |-> exception]

\* Decimal division: decimal.DivisionByZero (InvalidOperation for 0 / 0)
\* when the divisor is zero
DecQuotient(x, y) == IF y.n = 0 THEN Raised("DivisionByZero") ELSE DecDiv(x, y)

\* (x / y) * 100
DecPercentOf(x, y) ==
    IF y.n = 0 THEN Raised("DivisionByZero") ELSE DecMul(DecDiv(x, y), Dec(100, 1))

\* compute_percent without its test of ytd_target
compute_percent_unguarded(ytd_actual, ytd_target) == DecPercentOf(ytd_actual, ytd_target)

\* compute_percent(ytd_actual, ytd_target)
compute_percent(ytd_actual, ytd_target) ==
    IF ytd_target.n = 0 THEN DecZero ELSE DecPercentOf(ytd_actual, ytd_target)

\* compute_rag_from_percent called without a target
NoTarget == [none |-> TRUE]

\* green and amber of compute_rag_from_percent: Decimal('95.0') and
\* Decimal('80.0'), or the target's own
rag_green(target) == IF target = NoTarget THEN Dec(95, 1) ELSE target.green_threshold
rag_amber(target) == IF target = NoTarget THEN Dec(80, 1) ELSE target.amber_threshold

\* compute_rag_from_percent(percent, target)
compute_rag_from_percent(percent, target) ==
    IF DecGeq(percent, rag_green(target)) THEN "GREEN"
    ELSE IF DecGeq(percent, rag_amber(target)) THEN "AMBER"
    ELSE "RED"

-----------------------------------------------------------------------------
(* Year-to-date figures of targets and plan items (core/views.py).         *)

PeriodicityChoices == {"ANNUAL", "QUARTERLY", "MONTHLY", "MILESTONE"}

\* a Target row
TargetRow(id, value, periodicity, green, amber, active) ==
    [id |-> id, value |-> value, periodicity |-> periodicity, due_date |-> KpaYear.end_date,
     green_threshold |-> green, amber_threshold |-> amber, is_active |-> active]

\* a CostLine row of a plan item
CostLine(ps, pe, spend, active) ==
    [cost_period_start |-> ps, cost_period_end |-> pe, actual_spend |-> spend,
     is_active |-> active]

\* an OperationalPlanItem with its targets and cost lines
PlanItem(targets, input_cost, output_cost, cost_lines) ==
    [targets |-> targets, input_cost |-> input_cost, output_cost |-> output_cost,
     cost_lines |-> cost_lines]

PickOne(S) == CHOOSE x \in S : TRUE

\* the queryset of sum_actuals_ytd and latest_update_in_fy
\* (the same filter without is_active is the mutant)
updates_in_fy_with_inactive(rs, t, fy, asof) ==
    {r \in rs : /\ r.target = t.id
                /\ r.pe >= fy.start_date
                /\ r.pe <= Min(fy.end_date, asof)}

updates_in_fy(rs, t, fy, asof) ==
    {r \in rs : /\ r.target = t.id
                /\ r.pe >= fy.start_date
                /\ r.pe <= Min(fy.end_date, asof)
                /\ r.is_active}

\* total += Decimal(v) over the rows' actual_value
RECURSIVE sum_actual_value(_)
sum_actual_value(rs) ==
    IF rs = {} THEN DecZero
    ELSE DecAdd(Dec(PickOne(rs).actual_value, 1), sum_actual_value(rs \ {PickOne(rs)}))

\* sum_actuals_ytd(target, fin_year, as_of)
sum_actuals_ytd(rs, t, fy, asof) == sum_actual_value(updates_in_fy(rs, t, fy, asof))

\* ytd_target_value, the ANNUAL branch
annual_elapsed_days(fy, asof) == (Min(fy.end_date, asof) - fy.start_date) + 1

annual_total_days(fy) == (fy.end_date - fy.start_date) + 1

\* ytd_target_value(target, fin_year, as_of)
ytd_target_value(t, fy, asof) ==
    CASE t.periodicity = "ANNUAL" ->
            IF annual_total_days(fy) = 0 THEN DecZero
            ELSE DecDiv(DecMul(t.value, Dec(annual_elapsed_days(fy, asof), 1)),
                        Dec(annual_total_days(fy), 1))
      [] t.periodicity = "MONTHLY" ->
            DecMul(DecDiv(t.value, Dec(12, 1)), Dec(months_elapsed(fy, asof), 1))
      [] t.periodicity = "QUARTERLY" ->
            DecMul(DecDiv(t.value, Dec(4, 1)), Dec(quarters_elapsed(fy, asof), 1))
      [] OTHER -> t.value

\* compute_item_spend: the cost lines counted
cost_lines_in_fy(item, fy, asof) ==
    {cl \in item.cost_lines : /\ cl.cost_period_start >= fy.start_date
                              /\ cl.cost_period_end <= Min(fy.end_date, asof)
                              /\ cl.is_active}

RECURSIVE sum_actual_spend(_)
sum_actual_spend(cls) ==
    IF cls = {} THEN DecZero
    ELSE DecAdd(PickOne(cls).actual_spend, sum_actual_spend(cls \ {PickOne(cls)}))

\* compute_item_spend(plan_item, fin_year, as_of): planned, actual, spend_pct
item_planned(item) == DecAdd(item.input_cost, item.output_cost)

item_actual_spend(item, fy, asof) == sum_actual_spend(cost_lines_in_fy(item, fy, asof))

\* spend_pct = 0 if planned == 0 else (actual / planned) * 100
spend_percent(actual, planned) ==
    IF planned.n = 0 THEN DecZero ELSE DecPercentOf(actual, planned)

compute_item_spend(item, fy, asof) ==
    [planned |-> item_planned(item),
     actual |-> item_actual_spend(item, fy, asof),
     spend_pct |-> spend_percent(item_actual_spend(item, fy, asof), item_planned(item))]

\* Target.objects.filter(plan_item=item, is_active=True)
active_targets(item) == {t \in item.targets : t.is_active}

\* kpa_drilldown_view, the loop over the targets: the sums and each t_rag
RECURSIVE sum_ytd_target(_, _, _)
sum_ytd_target(ts, fy, asof) ==
    IF ts = {} THEN DecZero
    ELSE DecAdd(ytd_target_value(PickOne(ts), fy, asof),
                sum_ytd_target(ts \ {PickOne(ts)}, fy, asof))

RECURSIVE sum_ytd_actual(_, _, _, _)
sum_ytd_actual(ts, rs, fy, asof) ==
    IF ts = {} THEN DecZero
    ELSE DecAdd(sum_actuals_ytd(rs, PickOne(ts), fy, asof),
                sum_ytd_actual(ts \ {PickOne(ts)}, rs, fy, asof))

target_percent(t, rs, fy, asof) ==
    compute_percent(sum_actuals_ytd(rs, t, fy, asof), ytd_target_value(t, fy, asof))

target_rag(t, rs, fy, asof) == compute_rag_from_percent(target_percent(t, rs, fy, asof), t)

rag_counts(item, rs, fy, asof) ==
    [c \in {"GREEN", "AMBER", "RED"} |->
        Cardinality({t \in active_targets(item) : target_rag(t, rs, fy, asof) = c})]

\* the item RAG with GREEN tested before AMBER and RED (the mutant)
item_rag_best_case(counts) ==
    IF counts["GREEN"] > 0 THEN "GREEN"
    ELSE IF counts["AMBER"] > 0 THEN "AMBER"
    ELSE IF counts["RED"] > 0 THEN "RED"
    ELSE "GREY"

\* kpa_drilldown_view: the item RAG decided from rag_counts
item_rag(counts) ==
    IF counts["RED"] > 0 THEN "RED"
    ELSE IF counts["AMBER"] > 0 THEN "AMBER"
    ELSE IF counts["GREEN"] > 0 THEN "GREEN"
    ELSE "GREY"

\* the flag raised from a gap of 20 on (the mutant)
spend_alignment_flag_from_20(spend_pct, progress_pct) ==
    DecGeq(DecSub(spend_pct, progress_pct), Dec(20, 1))

\* spend_alignment_flag = (spend_pct - progress_pct) > Decimal('20')
spend_alignment_flag(spend_pct, progress_pct) ==
    DecGt(DecSub(spend_pct, progress_pct), Dec(20, 1))

item_progress_pct(item, rs, fy, asof) ==
    compute_percent(sum_ytd_actual(active_targets(item), rs, fy, asof),
                    sum_ytd_target(active_targets(item), fy, asof))

\* kpa_drilldown_view: the table row of one plan item
kpa_drilldown_view(item, rs, fy, asof) ==
    [ytd_target |-> sum_ytd_target(active_targets(item), fy, asof),
     ytd_actual |-> sum_ytd_actual(active_targets(item), rs, fy, asof),
     variance |-> DecSub(sum_ytd_actual(active_targets(item), rs, fy, asof),
                         sum_ytd_target(active_targets(item), fy, asof)),
     rag |-> item_rag(rag_counts(item, rs, fy, asof)),
     planned_budget |-> compute_item_spend(item, fy, asof).planned,
     actual_spend |-> compute_item_spend(item, fy, asof).actual,
     spend_pct |-> compute_item_spend(item, fy, asof).spend_pct,
     progress_pct |-> item_progress_pct(item, rs, fy, asof),
     spend_alignment_flag |->
         spend_alignment_flag(compute_item_spend(item, fy, asof).spend_pct,
                              item_progress_pct(item, rs, fy, asof))]

\* dashboard_view: budget_burn_pct of a KPA card and overall_burn
budget_burn_pct(kpa_spent, kpa_planned) ==
    IF kpa_planned.n = 0 THEN DecZero ELSE DecPercentOf(kpa_spent, kpa_planned)

overall_burn(total_actual_spend, total_planned_budget) ==
    IF total_planned_budget.n = 0 THEN DecZero
    ELSE DecPercentOf(total_actual_spend, total_planned_budget)

\* ProgressUpdate.percentage_complete and variance_percentage, on the
\* update's actual_value and target.ytd_target
percentage_complete(actual_value, ytd_target) ==
    IF ytd_target.n = 0 THEN DecZero ELSE DecPercentOf(actual_value, ytd_target)

variance_percentage(actual_value, ytd_target) ==
    IF ytd_target.n = 0 THEN DecZero
    ELSE DecPercentOf(DecSub(actual_value, ytd_target), ytd_target)

\* CostLine.variance_percentage, commitment_percentage, spend_percentage
cost_variance_percentage(actual_spend, budgeted_amount) ==
    IF budgeted_amount.n = 0 THEN DecZero
    ELSE DecPercentOf(DecSub(actual_spend, budgeted_amount), budgeted_amount)

commitment_percentage(committed_amount, budgeted_amount) ==
    IF budgeted_amount.n = 0 THEN DecZero ELSE DecPercentOf(committed_amount, budgeted_amount)

spend_percentage(actual_spend, budgeted_amount) ==
    IF budgeted_amount.n = 0 THEN DecZero ELSE DecPercentOf(actual_spend, budgeted_amount)

\* dashboard_view: the card of a KPA holding the one plan item, the counters
\* and the overall burn
dashboard_view(item, rs, fy, asof) ==
    [rag |-> compute_rag_from_percent(item_progress_pct(item, rs, fy, asof), NoTarget),
     ytd_target |-> sum_ytd_target(active_targets(item), fy, asof),
     ytd_actual |-> sum_ytd_actual(active_targets(item), rs, fy, asof),
     percent |-> item_progress_pct(item, rs, fy, asof),
     budget_burn_pct |-> budget_burn_pct(compute_item_spend(item, fy, asof).actual,
                                         compute_item_spend(item, fy, asof).planned),
     overall_burn |-> overall_burn(compute_item_spend(item, fy, asof).actual,
                                   compute_item_spend(item, fy, asof).planned)]

\* Target.ytd_target, the branches on date.today(): the financial year is
\* taken to start on 1 April of today's calendar year
ytd_days_elapsed(t) == t - Date(YearOf(t), 4, 1)

ytd_total_days(t) == IF IsLeap(YearOf(t) + 1) THEN 365 ELSE 364

ytd_quarters_elapsed(t) ==
    IF MonthOf(t) >= 4 THEN ((MonthOf(t) - 4) \div 3) + 1 ELSE ((MonthOf(t) + 8) \div 3) + 1

ytd_months_elapsed(t) == IF MonthOf(t) >= 4 THEN MonthOf(t) - 3 ELSE MonthOf(t) + 9

\* Target.ytd_target (a property read on date.today())
Target_ytd_target(tg, t) ==
    IF t > tg.due_date THEN tg.value
    ELSE CASE tg.periodicity = "ANNUAL" ->
                 IF t < Date(YearOf(t), 4, 1) THEN DecZero
                 ELSE DecMul(tg.value, Dec(ytd_days_elapsed(t), ytd_total_days(t)))
           [] tg.periodicity = "QUARTERLY" ->
                 DecMul(DecDiv(tg.value, Dec(4, 1)), Dec(Min(ytd_quarters_elapsed(t), 4), 1))
           [] tg.periodicity = "MONTHLY" ->
                 DecMul(DecDiv(tg.value, Dec(12, 1)), Dec(Min(ytd_months_elapsed(t), 12), 1))
           [] OTHER -> tg.value

\* Target.get_latest_progress(): the active row with the latest period_end
get_latest_progress(rs, t) ==
    {r \in rs : /\ r.target = t.id /\ r.is_active
                /\ \A o \in rs : (o.target = t.id /\ o.is_active) => o.pe <= r.pe}

\* the three bands of calculate_rag_status
rag_of_percentage(percentage, t) ==
    IF DecGeq(percentage, t.green_threshold) THEN "GREEN"
    ELSE IF DecGeq(percentage, t.amber_threshold) THEN "AMBER"
    ELSE "RED"

\* Target.calculate_rag_status(actual_value) for a given actual value
rag_status_of_actual(tg, actual_value, ytd_target) ==
    IF ytd_target.n = 0 THEN "GREY"
    ELSE rag_of_percentage(DecPercentOf(actual_value, ytd_target), tg)

\* Target.calculate_rag_status(): the latest progress, GREY without any
calculate_rag_status(tg, rs, t) ==
    IF get_latest_progress(rs, tg) = {} THEN "GREY"
    ELSE rag_status_of_actual(tg, Dec(PickOne(get_latest_progress(rs, tg)).actual_value, 1),
                              Target_ytd_target(tg, t))

-----------------------------------------------------------------------------
(* The evidence-escalation rule (progress/models.py, forms.py, views).     *)

\* settings.KPA_SETTINGS.get('EVIDENCE_REQUIRED_AFTER_MONTHS', 2)
EvidenceMonths == 2

\* None for actual_value and for period_end
NoValue == -1

NoDate == 0

\* dt - relativedelta(months=k): the month moves back, the day is clamped
SubMonthsIndex(dt, k) == (YearOf(dt) * 12 + (MonthOf(dt) - 1)) - k

SubMonths(dt, k) ==
    Date(SubMonthsIndex(dt, k) \div 12, (SubMonthsIndex(dt, k) % 12) + 1,
         Min(DayOf(dt), DaysInMonth(SubMonthsIndex(dt, k) \div 12,
                                    (SubMonthsIndex(dt, k) % 12) + 1)))

\* a value a call returns
Returned(value) == [value |-> value]

IsRaised(result) == "raised" \in DOMAIN result

\* ProgressUpdate.rag_status: target.calculate_rag_status(self.actual_value)
rag_status(tg, u, rs, t) ==
    IF u.actual_value = NoValue THEN calculate_rag_status(tg, rs, t)
    ELSE rag_status_of_actual(tg, Dec(u.actual_value, 1), Target_ytd_target(tg, t))

IsRedAmber(tg, u, rs, t) == rag_status(tg, u, rs, t) \in {"RED", "AMBER"}

\* is_evidence_required: the queryset consecutive_updates (saved rows only)
consecutive_updates(rs, tg, u) ==
    {r \in rs : /\ r.target = tg.id
                /\ r.pe >= SubMonths(u.pe, EvidenceMonths)
                /\ r.pe <= u.pe
                /\ r.is_active}

\* a row of the queryset that order_by('period_end') yields last
LastByPeriodEnd(rs) == CHOOSE r \in rs : \A o \in rs : o.pe <= r.pe

\* red_amber_count after the walk: the RED/AMBER rows at the end of the order
RECURSIVE red_amber_count(_, _, _, _)
red_amber_count(walk, tg, rs, t) ==
    IF walk = {} THEN 0
    ELSE IF ~IsRedAmber(tg, LastByPeriodEnd(walk), rs, t) THEN 0
    ELSE 1 + red_amber_count(walk \ {LastByPeriodEnd(walk)}, tg, rs, t)

\* ProgressUpdate.is_evidence_required(); lookup: whether the query succeeds
is_evidence_required(tg, u, rs, t, lookup) ==
    IF ~IsRedAmber(tg, u, rs, t) THEN Returned(FALSE)
    ELSE IF u.pe = NoDate THEN Raised("TypeError")
    ELSE IF ~lookup THEN Raised("DatabaseError")
    ELSE Returned(red_amber_count(consecutive_updates(rs, tg, u), tg, rs, t) >= EvidenceMonths)

\* try: ... except Exception: the flag stays False
guarded(result) == IF IsRaised(result) THEN Returned(FALSE) ELSE result

\* an unsaved ProgressUpdate (tmp = PU(...)): it has no row in the table
Unsaved(tg, ps, pe, actual_value) ==
    [id |-> 0, target |-> tg.id, ps |-> ps, pe |-> pe, actual_value |-> actual_value,
     narrative |-> "", is_submitted |-> FALSE, is_approved |-> FALSE, is_active |-> TRUE]

\* ProgressUpdateForm.clean, the evidence rule on the cleaned data
form_tmp(tg, cleaned) ==
    Unsaved(tg, IF cleaned.ps = NoDate THEN cleaned.pe ELSE cleaned.ps, cleaned.pe,
            cleaned.actual_value)

form_clean_evidence(tg, cleaned, rs, t, lookup) ==
    IF cleaned.pe = NoDate \/ cleaned.actual_value = NoValue THEN Returned(FALSE)
    ELSE guarded(is_evidence_required(tg, form_tmp(tg, cleaned), rs, t, lookup))

\* update_wizard_view, the evidence enforcement flag
wizard_tmp(tg, t) == Unsaved(tg, t, t, NoValue)

wizard_evidence_required(tg, rs, t, lookup) ==
    guarded(is_evidence_required(tg, wizard_tmp(tg, t), rs, t, lookup))

\* manager_progress_update_view and manager_progress_approval_view:
\* 'evidence_required': progress_update.is_evidence_required()
manager_evidence_required(tg, u, rs, t, lookup) == is_evidence_required(tg, u, rs, t, lookup)

-----------------------------------------------------------------------------
(* One KPA with one plan item: updates are recorded, approved, rejected    *)
(* and soft-deleted, and the drilldown and the dashboard are rendered.     *)

Quarterly100 == TargetRow("T1", Dec(100, 1), "QUARTERLY", Dec(95, 1), Dec(80, 1), TRUE)

Annual100 == TargetRow("T1", Dec(100, 1), "ANNUAL", Dec(95, 1), Dec(80, 1), TRUE)

Milestone50(active) == TargetRow("T2", Dec(50, 1), "MILESTONE", Dec(95, 1), Dec(80, 1), active)

FirstQuarterCost == CostLine(Date(2024, 4, 1), Date(2024, 6, 30), Dec(120, 1), TRUE)

SecondQuarterCost == CostLine(Date(2024, 7, 1), Date(2024, 9, 30), Dec(30, 1), TRUE)

InactiveCost == CostLine(Date(2024, 4, 1), Date(2024, 6, 30), Dec(50, 1), FALSE)

PlanItems ==
    { PlanItem({}, DecZero, DecZero, {}),
      PlanItem({Quarterly100}, Dec(60, 1), Dec(40, 1), {FirstQuarterCost}),
      PlanItem({Quarterly100, Milestone50(TRUE)}, Dec(100, 1), DecZero,
               {FirstQuarterCost, SecondQuarterCost}),
      PlanItem({Quarterly100, Milestone50(FALSE)}, Dec(100, 1), DecZero,
               {FirstQuarterCost, InactiveCost}),
      PlanItem({Annual100}, DecZero, DecZero, {FirstQuarterCost}) }

\* timezone.now().date() of the rendering: in the second quarter of KpaYear
\* and after its end
ReportDays == {Date(2024, 7, 10), Date(2025, 5, 10)}

\* reporting periods: before the year, its first two quarters, after it
ReportPeriods ==
    { Period(Date(2024, 1, 1), Date(2024, 3, 31)),
      FirstQuarter,
      Period(Date(2024, 7, 1), Date(2024, 9, 30)),
      Period(Date(2025, 4, 1), Date(2025, 4, 30)) }

ReportContents == { [actual_value |-> 45, narrative |-> ""],
                    [actual_value |-> 50, narrative |-> ""] }

\* the wizard's form data for a target of the plan item
ReportPayloads(item) ==
    {p \in [target : {t.id : t \in item.targets}, period : ReportPeriods, iso : {TRUE},
            content : ReportContents, is_submitted : {FALSE}, is_approved : {"unset"}] :
        p.target = "T2" => p.period = FirstQuarter}

InitReport ==
    /\ fin_year = KpaYear
    /\ today \in ReportDays
    /\ as_of = today
    /\ cfg = [enabled |-> FALSE, grace_days |-> DefaultGraceDays]
    /\ out = Evaluate(fin_year, as_of, today, cfg)
    /\ years = IdleYears
    /\ rows = {} /\ nextId = 1 /\ last = NoRequest /\ reqs = <<>>
    /\ plan \in PlanItems

\* the handler's outcome is committed and its response sent
Answer(res, op) ==
    /\ HasId(res.rows, nextId) => nextId <= MaxRows
    /\ rows' = res.rows
    /\ nextId' = IF HasId(res.rows, nextId) THEN nextId + 1 ELSE nextId
    /\ last' = [op |-> op]
    /\ out' = [status |-> res.status]
    /\ UNCHANGED <<fin_year, as_of, today, cfg, years, reqs, plan>>

\* update_wizard_view, the final step
RecordUpdate ==
    \E p \in ReportPayloads(plan) :
        Answer(update_wizard_view(rows, nextId, p, today, cfg), "wizard")

\* manager_progress_approval_view
ApproveUpdate ==
    \E r \in rows :
        /\ r.is_active /\ r.is_submitted
        /\ Answer(Outcome("ok", ReplaceRow(rows, r.id, approve(r))), "approve")

RejectUpdate ==
    \E r \in rows :
        /\ r.is_active /\ r.is_submitted
        /\ Answer(Outcome("ok", ReplaceRow(rows, r.id, reject(r))), "reject")

\* the admin clears is_active (soft delete)
DeactivateUpdate ==
    \E r \in rows :
        /\ r.is_active
        /\ Answer(Outcome("ok", ReplaceRow(rows, r.id, [r EXCEPT !.is_active = FALSE])),
                  "soft_delete")

\* a page is rendered
Render(view, response) ==
    /\ last' = [op |-> view]
    /\ out' = response
    /\ UNCHANGED <<fin_year, as_of, today, cfg, years, rows, nextId, reqs, plan>>

Drilldown == Render("kpa_drilldown_view", kpa_drilldown_view(plan, rows, fin_year, today))

Dashboard == Render("dashboard_view", dashboard_view(plan, rows, fin_year, today))

NextReport ==
    \/ RecordUpdate
    \/ ApproveUpdate
    \/ RejectUpdate
    \/ DeactivateUpdate
    \/ Drilldown
    \/ Dashboard

SpecReport == InitReport /\ [][NextReport]_vars

-----------------------------------------------------------------------------
(* The calculation helpers called on drawn arguments.                      *)

\* percentages around the default and the drawn thresholds, in hundredths
PercentHundredths == {0, 6000, 7999, 8000, 8001, 9499, 9500, 9501, 10000, 12000}

Percents == {Dec(n, 100) : n \in PercentHundredths}

\* green_threshold and amber_threshold of a Target: any two values of 0..100
\* (the fields are validated one by one, not against each other)
Thresholds == {Dec(60, 1), Dec(80, 1), Dec(95, 1)}

RagTargets == [green_threshold : Thresholds, amber_threshold : Thresholds]

\* actuals and targets handed to compute_percent
Amounts == {Dec(n, 100) : n \in {0, 1, 6000, 7999, 8000, 9500, 10000, 12500}}

IdleTime ==
    /\ fin_year = KpaYear
    /\ as_of = ClockDays[1]
    /\ today = ClockDays[1]
    /\ cfg = [enabled |-> FALSE, grace_days |-> DefaultGraceDays]
    /\ out = Evaluate(fin_year, as_of, today, cfg)

InitCalc ==
    /\ IdleTime
    /\ years = IdleYears
    /\ IdleLedger

\* the variables a call of a helper leaves alone
calcUnchanged == UNCHANGED <<fin_year, as_of, today, cfg, years, rows, nextId, reqs, plan>>

CallComputePercent ==
    \E a \in Amounts, t \in Amounts :
        /\ last' = [op |-> "compute_percent", ytd_actual |-> a, ytd_target |-> t]
        /\ out' = compute_percent(a, t)
        /\ calcUnchanged

CallComputeRag ==
    \E p \in Percents, tg \in RagTargets \cup {NoTarget} :
        /\ last' = [op |-> "compute_rag_from_percent", percent |-> p, target |-> tg]
        /\ out' = compute_rag_from_percent(p, tg)
        /\ calcUnchanged

CallComputeItemSpend ==
    \E it \in PlanItems, asof \in ReportDays :
        /\ last' = [op |-> "compute_item_spend", item |-> it, as_of |-> asof]
        /\ out' = compute_item_spend(it, KpaYear, asof)
        /\ calcUnchanged

\* the budget burn of a dashboard card and of the whole dashboard
CallBudgetBurn ==
    \E s \in Amounts, pl \in Amounts :
        /\ last' = [op |-> "budget_burn", spent |-> s, planned |-> pl]
        /\ out' = [budget_burn_pct |-> budget_burn_pct(s, pl),
                   overall_burn |-> overall_burn(s, pl)]
        /\ calcUnchanged

\* the percentage properties of a ProgressUpdate
CallUpdateProperties ==
    \E a \in Amounts, t \in Amounts :
        /\ last' = [op |-> "ProgressUpdate", actual_value |-> a, ytd_target |-> t]
        /\ out' = [percentage_complete |-> percentage_complete(a, t),
                   variance_percentage |-> variance_percentage(a, t)]
        /\ calcUnchanged

\* the percentage properties of a CostLine with equal spend and commitment
CallCostLineProperties ==
    \E a \in Amounts, b \in Amounts :
        /\ last' = [op |-> "CostLine", actual_spend |-> a, committed_amount |-> a, budgeted_amount |-> b]
        /\ out' = [variance_percentage |-> cost_variance_percentage(a, b),
                   commitment_percentage |-> commitment_percentage(a, b),
                   spend_percentage |-> spend_percentage(a, b)]
        /\ calcUnchanged

NextCalc ==
    \/ CallComputePercent
    \/ CallComputeRag
    \/ CallComputeItemSpend
    \/ CallBudgetBurn
    \/ CallUpdateProperties
    \/ CallCostLineProperties

SpecCalc == InitCalc /\ [][NextCalc]_vars

-----------------------------------------------------------------------------
(* The evidence requirement evaluated over a target's history.             *)

EvidenceTarget == Quarterly100

\* monthly reporting periods of the first quarter of KpaYear
EvidencePeriods ==
    { Period(Date(2024, 4, 1), Date(2024, 4, 30)),
      Period(Date(2024, 5, 1), Date(2024, 5, 31)),
      Period(Date(2024, 6, 1), Date(2024, 6, 30)) }

\* actual values that are RED, AMBER and GREEN against the target on ClockDays[1]
EvidenceActuals == {25, 45, 50}

EvidencePayloads ==
    [target : {EvidenceTarget.id}, period : EvidencePeriods, iso : {TRUE},
     content : {[actual_value |-> v, narrative |-> ""] : v \in EvidenceActuals},
     is_submitted : {FALSE}, is_approved : {"unset"}]

\* the form's cleaned data: complete, or lacking period_end or actual_value
CleanedData ==
    {[ps |-> per.ps, pe |-> per.pe, actual_value |-> v] :
        per \in EvidencePeriods \cup {Period(NoDate, NoDate)},
        v \in EvidenceActuals \cup {NoValue}}

InitEvidence ==
    /\ IdleTime
    /\ years = IdleYears
    /\ rows = {} /\ nextId = 1 /\ last = NoRequest /\ reqs = <<>>
    /\ plan = PlanItem({EvidenceTarget}, DecZero, DecZero, {})

\* an update is saved through the wizard
SaveHistory ==
    \E p \in EvidencePayloads :
        Answer(update_wizard_view(rows, nextId, p, today, cfg), "wizard")

\* the requirement is evaluated for update u and the page or form answers
Evaluated(op, u, lookup, result) ==
    /\ last' = [op |-> op, update |-> u, lookup |-> lookup]
    /\ out' = result
    /\ UNCHANGED <<fin_year, as_of, today, cfg, years, reqs, plan>>

\* ProgressUpdateForm.clean on submitted data
ValidateForm ==
    \E cleaned \in CleanedData, lookup \in BOOLEAN :
        /\ last' = [op |-> "form", update |-> form_tmp(EvidenceTarget, cleaned), lookup |-> lookup]
        /\ out' = form_clean_evidence(EvidenceTarget, cleaned, rows, today, lookup)
        /\ UNCHANGED <<fin_year, as_of, today, cfg, years, reqs, plan, rows, nextId>>

\* GET of the update wizard
WizardPage ==
    \E lookup \in BOOLEAN :
        /\ Evaluated("wizard_page", wizard_tmp(EvidenceTarget, today), lookup,
                     wizard_evidence_required(EvidenceTarget, rows, today, lookup))
        /\ UNCHANGED <<rows, nextId>>

\* GET of manager_progress_update_view: get_or_create, then the context
ManagerPage ==
    \E lookup \in BOOLEAN :
        \E rs \in {get_or_create(rows, nextId, EvidenceTarget.id, today)} :
            /\ HasId(rs, nextId) => nextId <= MaxRows + 1
            /\ rows' = rs
            /\ nextId' = IF HasId(rs, nextId) THEN nextId + 1 ELSE nextId
            /\ Evaluated("manager_page", current_update(rs, EvidenceTarget.id, today), lookup,
                         manager_evidence_required(EvidenceTarget,
                             current_update(rs, EvidenceTarget.id, today), rs, today, lookup))

\* GET of manager_progress_approval_view for a saved update
ApprovalPage ==
    \E r \in rows, lookup \in BOOLEAN :
        /\ Evaluated("approval_page", r, lookup,
                     manager_evidence_required(EvidenceTarget, r, rows, today, lookup))
        /\ UNCHANGED <<rows, nextId>>

NextEvidence ==
    \/ SaveHistory
    \/ DeactivateUpdate
    \/ ValidateForm
    \/ WizardPage
    \/ ManagerPage
    \/ ApprovalPage

SpecEvidence == InitEvidence /\ [][NextEvidence]_vars

-----------------------------------------------------------------------------
(* Claims about the evidence requirement (SpecEvidence).                   *)

EvidenceOps == {"form", "wizard_page", "manager_page", "approval_page"}

\* the updates the rule of the claim walks for the evaluated update u: the
\* target's active updates with period_end in [u.pe - N months, u.pe], u
\* itself in place of its stored version
ClaimedWalk(u) ==
    {r \in {o \in rows : ~(o.ps = u.ps /\ o.pe = u.pe)} \cup {u} :
        /\ r.target = u.target
        /\ r.is_active
        /\ r.pe >= SubMonths(u.pe, EvidenceMonths)
        /\ r.pe <= u.pe}

\* the N latest updates of the walk
LatestOfWalk(u) ==
    {r \in ClaimedWalk(u) : Cardinality({o \in ClaimedWalk(u) : o.pe > r.pe}) < EvidenceMonths}

\* the run of RED/AMBER updates ending at u has length N or more
RunReachesN(u) ==
    /\ Cardinality(ClaimedWalk(u)) >= EvidenceMonths
    /\ \A r \in LatestOfWalk(u) : IsRedAmber(EvidenceTarget, r, rows, today)

\* C14: for an update whose own RAG is RED or AMBER the requirement is true
\* exactly when the run of consecutive RED/AMBER updates ending at it, in
\* the chronological walk of the window, has length N or more; for a GREEN
\* or GREY update it is false.
C14_EvidenceAfterRun ==
    (/\ last.op \in EvidenceOps
     /\ last.lookup
     /\ last.update.pe # NoDate
     /\ last.update.actual_value # NoValue)
    => /\ ~IsRaised(out)
       /\ out.value <=> (/\ IsRedAmber(EvidenceTarget, last.update, rows, today)
                         /\ RunReachesN(last.update))

\* C15: evaluating the requirement never raises, in form validation, the
\* wizard, the manager update page and the approval page; with a failing
\* lookup or a partially built update the answer is "not required".
C15_EvidenceNeverRaises ==
    last.op \in EvidenceOps =>
        /\ ~IsRaised(out)
        /\ (\/ ~last.lookup
            \/ last.update.pe = NoDate
            \/ (last.op = "form" /\ last.update.actual_value = NoValue)) => ~out.value

-----------------------------------------------------------------------------
(* Claims about the reports (SpecReport).                                  *)

\* the target has no active ProgressUpdate
NoProgress(tg) == \A r \in rows : ~(r.target = tg.id /\ r.is_active)

\* C11: a target with no active ProgressUpdate is GREY, never RED, in
\* Target.calculate_rag_status, as the per-target RAG of the drilldown, in the
\* drilldown's rollup of a plan item whose targets all lack progress, and on
\* the dashboard card of such a KPA.
C11_NoProgressIsGrey ==
    /\ \A tg \in active_targets(plan) :
          NoProgress(tg) =>
              /\ calculate_rag_status(tg, rows, today) = "GREY"
              /\ target_rag(tg, rows, fin_year, today) = "GREY"
    /\ (/\ last.op \in {"kpa_drilldown_view", "dashboard_view"}
        /\ active_targets(plan) # {}
        /\ \A tg \in active_targets(plan) : NoProgress(tg))
       => out.rag = "GREY"

\* the RAGs of the plan item's active targets on the day of the rendering
TargetRags == {target_rag(tg, rows, fin_year, today) : tg \in active_targets(plan)}

\* C13: the drilldown's RAG of a plan item is the worst case over the RAGs of
\* its active targets: RED if any is RED, else AMBER if any is AMBER, else
\* GREEN if any is GREEN, else GREY (so GREY with no active target).
C13_WorstCaseRollup ==
    last.op = "kpa_drilldown_view" =>
        /\ ("RED" \in TargetRags) => out.rag = "RED"
        /\ ("RED" \notin TargetRags /\ "AMBER" \in TargetRags) => out.rag = "AMBER"
        /\ (TargetRags = {"GREEN"}) => out.rag = "GREEN"
        /\ (active_targets(plan) = {}) => out.rag = "GREY"

\* a plan item with one GREEN and one AMBER target is rendered AMBER
C13_Witness ==
    /\ last.op = "kpa_drilldown_view"
    /\ TargetRags = {"GREEN", "AMBER"}
    /\ out.rag = "AMBER"

\* spend_pct - progress_pct of the rendered row, compared with 20 percentage
\* points on the numerators of the two fractions
GapNumerator == (out.spend_pct.n * out.progress_pct.d) - (out.progress_pct.n * out.spend_pct.d)

TwentyPoints == 20 * out.spend_pct.d * out.progress_pct.d

\* C18: the drilldown's spend-alignment flag of an item is true exactly when
\* spend_pct - progress_pct is strictly greater than 20 percentage points.
C18_SpendAlignment ==
    last.op = "kpa_drilldown_view" =>
        (out.spend_alignment_flag <=> GapNumerator > TwentyPoints)

\* an item is rendered with a gap of exactly 20 points and without the flag
C18_Witness ==
    /\ last.op = "kpa_drilldown_view"
    /\ out.spend_pct.n > 0
    /\ GapNumerator = TwentyPoints
    /\ ~out.spend_alignment_flag

\* the updates of target tg that count on the day of the rendering: active,
\* with fy.start <= period_end <= min(fy.end, as_of)
Counted(tg) ==
    {r \in rows : /\ r.target = tg.id
                  /\ r.is_active
                  /\ fin_year.start_date <= r.pe
                  /\ r.pe <= fin_year.end_date
                  /\ r.pe <= today}

\* what the row with the given id adds to the total of tg
Contribution(tg, id) ==
    IF \E r \in Counted(tg) : r.id = id
    THEN (CHOOSE r \in Counted(tg) : r.id = id).actual_value
    ELSE 0

\* the total of the counted rows, added up in the order of their ids
CountedTotal(tg) ==
    LET total[k \in 0..(nextId - 1)] ==
            IF k = 0 THEN 0 ELSE total[k - 1] + Contribution(tg, k)
    IN  total[nextId - 1]

YtdActual(tg) == sum_actuals_ytd(rows, tg, fin_year, today)

\* C19: sum_actuals_ytd is the sum of actual_value over exactly the target's
\* active updates with fy.start <= period_end <= min(fy.end, as_of); and a
\* step that only approves or rejects an update leaves it unchanged.
C19_SumOfCountedUpdates ==
    /\ [](\A tg \in plan.targets : YtdActual(tg) = Dec(CountedTotal(tg), 1))
    /\ [][last'.op \in {"approve", "reject"}
            => \A tg \in plan.targets : YtdActual(tg)' = YtdActual(tg)]_vars

\* after an approval one update counts while a soft-deleted update with a
\* period inside the window does not
C19_Witness ==
    /\ last.op = "approve"
    /\ \E tg \in plan.targets :
          /\ YtdActual(tg).n > 0
          /\ \E r \in rows : /\ r.target = tg.id
                              /\ ~r.is_active
                              /\ fin_year.start_date <= r.pe
                              /\ r.pe <= today

-----------------------------------------------------------------------------
(* Claims about the calculation helpers (SpecCalc).                        *)

\* the thresholds the claims name for a call: 95 and 80 without a target
NamedGreen(request) ==
    IF request.target = NoTarget THEN Dec(95, 1) ELSE request.target.green_threshold

NamedAmber(request) ==
    IF request.target = NoTarget THEN Dec(80, 1) ELSE request.target.amber_threshold

\* C16: a ratio whose denominator is zero is 0 and nothing is raised:
\* compute_percent with ytd_target 0, the spend_pct of compute_item_spend with
\* planned 0, the dashboard's budget burn with a planned budget of 0, and the
\* percentage properties of ProgressUpdate and CostLine with a base of 0.
C16_ZeroDenominator ==
    /\ (last.op = "compute_percent" /\ last.ytd_target = DecZero) => out = DecZero
    /\ (last.op = "compute_item_spend" /\ item_planned(last.item) = DecZero)
         => out.spend_pct = DecZero
    /\ (last.op = "budget_burn" /\ last.planned = DecZero)
         => (out.budget_burn_pct = DecZero /\ out.overall_burn = DecZero)
    /\ (last.op = "ProgressUpdate" /\ last.ytd_target = DecZero)
         => (out.percentage_complete = DecZero /\ out.variance_percentage = DecZero)
    /\ (last.op = "CostLine" /\ last.budgeted_amount = DecZero)
         => /\ out.variance_percentage = DecZero
            /\ out.commitment_percentage = DecZero
            /\ out.spend_percentage = DecZero

\* compute_percent is called with an actual other than 0 and a target of 0
C16_Witness ==
    /\ last.op = "compute_percent"
    /\ last.ytd_target = DecZero
    /\ last.ytd_actual # DecZero
    /\ out = DecZero

\* C12: compute_rag_from_percent returns GREEN exactly when percent >= green,
\* AMBER exactly when amber <= percent < green and RED exactly when
\* percent < amber, green and amber being 95 and 80 without a target and the
\* target's thresholds otherwise.
C12_RagBoundaries ==
    last.op = "compute_rag_from_percent" =>
        /\ (out = "GREEN") <=> DecGeq(last.percent, NamedGreen(last))
        /\ (out = "AMBER") <=> (/\ DecGeq(last.percent, NamedAmber(last))
                                /\ DecLt(last.percent, NamedGreen(last)))
        /\ (out = "RED") <=> DecLt(last.percent, NamedAmber(last))

-----------------------------------------------------------------------------
(* Claims about the calendar engine (checked under SpecTime).              *)

\* C8: is_period_locked(fy, period_end, today) is false for every today when
\* locking is disabled; when enabled it is true exactly when today is more
\* than grace_days days after quarter_end_for(fy, period_end): with
\* grace_days = 14, quarter end + 13 and + 14 days are not locked and
\* quarter end + 15 days is locked.
C8_LockRule ==
    LET late == today - out.q_end      \* days from the quarter end to today
    IN  /\ ~cfg.enabled => ~out.locked
        /\ cfg.enabled => (out.locked <=> late > cfg.grace_days)
        /\ cfg.enabled /\ cfg.grace_days = 14 /\ late \in {13, 14} => ~out.locked
        /\ cfg.enabled /\ cfg.grace_days = 14 /\ late = 15 => out.locked

C8_Witness ==
    /\ cfg.enabled /\ cfg.grace_days = 14
    /\ today = out.q_end + 15
    /\ out.locked

\* the 1-indexed quarter of a month count m: ceil(m / 3), limited to 1..4
QuarterOfMonth(m) ==
    IF m <= 0 THEN 1
    ELSE IF m > 9 THEN 4
    ELSE CHOOSE k \in 1..3 : 3 * (k - 1) < m /\ m <= 3 * k

\* C9: quarter_end_for(fy, as_of) is the last day of quarter q of the year
\* (q = ceil(months_elapsed / 3) in 1..4): fy.start + 3*(q-1) months
\* + 3 months - 1 day, never later than fy.end; for as_of inside the year the
\* result is on or after as_of; for as_of before fy.start it is the first
\* quarter's end; for FY 2024-04-01..2025-03-31 and as_of 2024-04-15 it is
\* 2024-06-30.
C9_QuarterEnd ==
    LET s  == fin_year.start_date
        e  == fin_year.end_date
        q  == QuarterOfMonth(out.m)
        qe == AddMonths(AddMonths(s, 3 * (q - 1)), 3) - 1
    IN  /\ out.q_end = Min(qe, e)
        /\ out.q_end <= e
        /\ (s <= as_of /\ as_of <= e) => out.q_end >= as_of
        /\ as_of < s => out.q_end = Min(AddMonths(s, 3) - 1, e)
        /\ (s = Date(2024, 4, 1) /\ e = Date(2025, 3, 31) /\ as_of = Date(2024, 4, 15))
              => out.q_end = Date(2024, 6, 30)

\* a year that ends the day before the start date's anniversary
TwelveMonthYear(fy) == fy.end_date = AddMonths(fy.start_date, 12) - 1

\* C10: months_elapsed(fy, as_of) is 0 before fy.start and otherwise the
\* 1-indexed ordinal of the month of the year (counted from the start date,
\* start month = 1) that holds min(as_of, fy.end); for a year starting on the
\* first of a month that is the calendar month ordinal; for a 12-month year it
\* lies in 1..12; it never decreases as as_of advances; quarters_elapsed is
\* ceil(months_elapsed / 3) capped at 4, and 0 exactly when months_elapsed is 0.
\* (core/views.py months_elapsed and core/utils_time.py months_elapsed_in_fy
\* return the same number.)
C10_MonthsElapsed ==
    LET s == fin_year.start_date
        e == fin_year.end_date
        a == Min(as_of, e)
        m == out.m
    IN  /\ out.mv = m
        /\ as_of < s => m = 0
        /\ as_of >= s => /\ m >= 1
                         /\ AddMonths(s, m - 1) <= a
                         /\ a < AddMonths(s, m)
        /\ (as_of >= s /\ DayOf(s) = 1)
              => m = (YearOf(a) - YearOf(s)) * 12 + (MonthOf(a) - MonthOf(s)) + 1
        /\ (as_of >= s /\ TwelveMonthYear(fin_year)) => m \in 1..12
        /\ months_elapsed(fin_year, as_of + 1) >= out.mv
        /\ months_elapsed_in_fy(s, e, as_of + 1) >= m
        /\ out.q = (IF m = 0 THEN 0 ELSE QuarterOfMonth(m))
        /\ out.q = 0 <=> m = 0

C10_Witness ==
    /\ as_of > fin_year.end_date
    /\ TwelveMonthYear(fin_year)
    /\ out.m = 12 /\ out.mv = 12 /\ out.q = 4

-----------------------------------------------------------------------------
(* ytd_target_value of one target, evaluated day after day.                *)

\* targets of every periodicity, with value 0 and value 100
YtdTargets ==
    {TargetRow("T1", v, per, Dec(95, 1), Dec(80, 1), TRUE) :
        v \in {DecZero, Dec(100, 1)}, per \in PeriodicityChoices}

\* the target under evaluation
YtdTarget == PickOne(plan.targets)

InitYtd ==
    /\ fin_year \in FinYears
    /\ as_of = fin_year.start_date - LeadDays
    /\ today = as_of
    /\ cfg = [enabled |-> FALSE, grace_days |-> DefaultGraceDays]
    /\ years = IdleYears
    /\ rows = {} /\ nextId = 1 /\ reqs = <<>>
    /\ \E tg \in YtdTargets : plan = PlanItem({tg}, DecZero, DecZero, {})
    /\ last = [op |-> "ytd_target_value"]
    /\ out = ytd_target_value(YtdTarget, fin_year, as_of)

\* the as-of date advances by a day and the value is computed again
NextYtdDay ==
    /\ as_of < fin_year.end_date + TailDays
    /\ as_of' = as_of + 1
    /\ today' = as_of'
    /\ out' = ytd_target_value(YtdTarget, fin_year, as_of')
    /\ UNCHANGED <<fin_year, cfg, years, rows, nextId, last, reqs, plan>>

NextYtd == NextYtdDay

SpecYtd == InitYtd /\ [][NextYtd]_vars

\* C20: for a target with value >= 0 and a 12-month financial year,
\* ytd_target_value lies between 0 and the target value for every as_of, is
\* the full value for every as_of on or after fy.end, the full value always
\* for a MILESTONE target, and never decreases as as_of advances.
C20_YtdTargetProportion ==
    /\ [](TwelveMonthYear(fin_year) =>
            /\ DecGeq(out, DecZero)
            /\ DecGeq(YtdTarget.value, out)
            /\ (as_of >= fin_year.end_date) => out = YtdTarget.value
            /\ (YtdTarget.periodicity = "MILESTONE") => out = YtdTarget.value)
    /\ [][TwelveMonthYear(fin_year) => DecGeq(out', out)]_vars

-----------------------------------------------------------------------------
(* Normalising evidence_urls (progress/forms.py, core/api_views.py).       *)
(* A text is a sequence of characters, a list a sequence of texts.         *)

MaxTextLen == 5

MaxEntries == 2

MaxEntryLen == 2

Chars == {"a", " ", "\n"}

IsSpace(c) == c \in {" ", "\n"}

\* str.lstrip(), str.rstrip(), str.strip()
RECURSIVE lstrip(_)
lstrip(s) == IF s = <<>> THEN <<>> ELSE IF IsSpace(Head(s)) THEN lstrip(Tail(s)) ELSE s

RECURSIVE rstrip(_)
rstrip(s) ==
    IF s = <<>> THEN <<>>
    ELSE IF IsSpace(s[Len(s)]) THEN rstrip(SubSeq(s, 1, Len(s) - 1)) ELSE s

strip(s) == rstrip(lstrip(s))

\* the position of the first line break of s, 0 without one
FirstBreak(s) ==
    IF \E i \in 1..Len(s) : s[i] = "\n"
    THEN CHOOSE i \in 1..Len(s) : s[i] = "\n" /\ \A j \in 1..(i - 1) : s[j] # "\n"
    ELSE 0

\* str.splitlines(): no line for the end of a text that ends in a line break
RECURSIVE splitlines(_)
splitlines(s) ==
    IF s = <<>> THEN <<>>
    ELSE IF FirstBreak(s) = 0 THEN <<s>>
    ELSE <<SubSeq(s, 1, FirstBreak(s) - 1)>> \o splitlines(SubSeq(s, FirstBreak(s) + 1, Len(s)))

\* [l.strip() for l in lines if l.strip()]
RECURSIVE stripped_nonblank(_)
stripped_nonblank(lines) ==
    IF lines = <<>> THEN <<>>
    ELSE IF strip(Head(lines)) = <<>> THEN stripped_nonblank(Tail(lines))
    ELSE <<strip(Head(lines))>> \o stripped_nonblank(Tail(lines))

\* [x for x in data if str(x).strip()]
RECURSIVE nonblank(_)
nonblank(lines) ==
    IF lines = <<>> THEN <<>>
    ELSE IF strip(Head(lines)) = <<>> THEN nonblank(Tail(lines))
    ELSE <<Head(lines)>> \o nonblank(Tail(lines))

\* the value of the request field: a text block or a list of texts
Text(s) == [kind |-> "text", value |-> s]

List(l) == [kind |-> "list", value |-> l]

\* repr() of a str: quoted, a line break written as backslash n
RECURSIVE repr_chars(_)
repr_chars(s) ==
    IF s = <<>> THEN <<>>
    ELSE (IF Head(s) = "\n" THEN <<"\\", "n">> ELSE <<Head(s)>>) \o repr_chars(Tail(s))

repr(s) == <<"'">> \o repr_chars(s) \o <<"'">>

\* str() of a list: [repr, repr, ...]
RECURSIVE repr_items(_)
repr_items(l) ==
    IF l = <<>> THEN <<>>
    ELSE IF Len(l) = 1 THEN repr(Head(l))
    ELSE repr(Head(l)) \o <<",", " ">> \o repr_items(Tail(l))

str(ev) == IF ev.kind = "list" THEN <<"[">> \o repr_items(ev.value) \o <<"]">> ELSE ev.value

\* forms.CharField.clean (strip=True): an empty value gives '', any other
\* value is str(value).strip()
CharField_clean(ev) == IF ev.value = <<>> THEN Text(<<>>) ELSE Text(strip(str(ev)))

\* ProgressUpdateForm.clean_evidence_urls on cleaned_data['evidence_urls']
clean_evidence_urls(data) ==
    IF data.kind = "list" THEN nonblank(data.value)
    ELSE stripped_nonblank(splitlines(data.value))

\* the form: the field is cleaned, then clean_evidence_urls runs
form_evidence_urls(ev) == clean_evidence_urls(CharField_clean(ev))

\* save_draft: evidence_urls of the payload
api_evidence_urls(ev) ==
    IF ev.kind = "text" THEN stripped_nonblank(splitlines(ev.value))
    ELSE stripped_nonblank(ev.value)

TextsUpTo(n) == UNION {[1..k -> Chars] : k \in 0..n}

\* entries of a list: texts without a line break
EntryTexts == {e \in TextsUpTo(MaxEntryLen) : \A i \in 1..Len(e) : e[i] # "\n"}

TextInputs == {Text(s) : s \in TextsUpTo(MaxTextLen)}

ListInputs == {List(l) : l \in UNION {[1..k -> EntryTexts] : k \in 0..MaxEntries}}

InitUrls ==
    /\ IdleTime
    /\ years = IdleYears
    /\ IdleLedger

\* ProgressUpdateForm is validated with a text block, or with a list
FormWithText ==
    \E ev \in TextInputs :
        /\ last' = [op |-> "form", evidence_urls |-> ev]
        /\ out' = form_evidence_urls(ev)
        /\ calcUnchanged

FormWithList ==
    \E ev \in ListInputs :
        /\ last' = [op |-> "form", evidence_urls |-> ev]
        /\ out' = form_evidence_urls(ev)
        /\ calcUnchanged

\* POST /api/progress-updates/draft/ with a text block, or with a list
ApiWithText ==
    \E ev \in TextInputs :
        /\ last' = [op |-> "api", evidence_urls |-> ev]
        /\ out' = api_evidence_urls(ev)
        /\ calcUnchanged

ApiWithList ==
    \E ev \in ListInputs :
        /\ last' = [op |-> "api", evidence_urls |-> ev]
        /\ out' = api_evidence_urls(ev)
        /\ calcUnchanged

NextUrls ==
    \/ FormWithText
    \/ FormWithList
    \/ ApiWithText
    \/ ApiWithList

SpecUrls == InitUrls /\ [][NextUrls]_vars

-----------------------------------------------------------------------------
(* Claims about the normalisation (SpecUrls).                              *)

\* the path of the last request applied to another value
SamePath(ev) == IF last.op = "form" THEN form_evidence_urls(ev) ELSE api_evidence_urls(ev)

KthSmallest(S, k) == CHOOSE x \in S : Cardinality({y \in S : y < x}) = k - 1

\* the text without its surrounding whitespace
Trimmed(e) ==
    IF \A i \in 1..Len(e) : IsSpace(e[i]) THEN <<>>
    ELSE SubSeq(e, CHOOSE i \in 1..Len(e) : ~IsSpace(e[i]) /\ \A j \in 1..(i - 1) : IsSpace(e[j]),
                   CHOOSE i \in 1..Len(e) : ~IsSpace(e[i]) /\ \A j \in (i + 1)..Len(e) : IsSpace(e[j]))

\* the lines of a text block: the pieces between its line breaks
LineStarts(s) == {1} \cup {i + 1 : i \in {j \in 1..(Len(s) - 1) : s[j] = "\n"}}

LineFrom(s, a) ==
    IF \E i \in a..Len(s) : s[i] = "\n"
    THEN SubSeq(s, a, (CHOOSE i \in a..Len(s) : s[i] = "\n" /\ \A j \in a..(i - 1) : s[j] # "\n") - 1)
    ELSE SubSeq(s, a, Len(s))

LinesOf(s) ==
    IF s = <<>> THEN <<>>
    ELSE [k \in 1..Cardinality(LineStarts(s)) |-> LineFrom(s, KthSmallest(LineStarts(s), k))]

\* the entries of a value: its lines, or its elements
EntriesOf(ev) == IF ev.kind = "text" THEN LinesOf(ev.value) ELSE ev.value

Kept(ev) == {i \in 1..Len(EntriesOf(ev)) : Trimmed(EntriesOf(ev)[i]) # <<>>}

\* the non-blank entries, trimmed, in the original order
NormalForm(ev) ==
    [k \in 1..Cardinality(Kept(ev)) |-> Trimmed(EntriesOf(ev)[KthSmallest(Kept(ev), k)])]

\* the text block with the entries of a list, one per line
RECURSIVE JoinLines(_)
JoinLines(l) ==
    IF l = <<>> THEN <<>>
    ELSE IF Len(l) = 1 THEN Head(l)
    ELSE Head(l) \o <<"\n">> \o JoinLines(Tail(l))

\* C17: on the form path and on the draft API path, normalising a text block
\* or a list yields its non-blank entries, trimmed, in order; normalising the
\* result again returns it unchanged; and a list and the text block of the
\* same entries give the same result, on either path.
C17_EvidenceUrlsNormalised ==
    last.op \in {"form", "api"} =>
        /\ out = NormalForm(last.evidence_urls)
        /\ SamePath(List(out)) = out
        /\ (last.evidence_urls.kind = "list") =>
              /\ SamePath(Text(JoinLines(last.evidence_urls.value))) = out
              /\ form_evidence_urls(last.evidence_urls) = api_evidence_urls(last.evidence_urls)

-----------------------------------------------------------------------------
(* The forecast of a target (core/views.py compute_forecast_value).        *)

MaxForecastRows == 2

\* a ProgressUpdate row with its forecast_value (NoValue: NULL)
ForecastRow(id, tgt, per, actual, forecast) ==
    [id |-> id, target |-> tgt, ps |-> per.ps, pe |-> per.pe, actual_value |-> actual,
     forecast_value |-> forecast, is_active |-> TRUE]

\* order_by('-period_end') with the first row taken
\* (order_by('period_end') is the mutant)
latest_update_in_fy_oldest_first(rs, t, fy, asof) ==
    {r \in updates_in_fy(rs, t, fy, asof) :
        \A o \in updates_in_fy(rs, t, fy, asof) : o.pe >= r.pe}

\* latest_update_in_fy(target, fin_year, as_of): the rows .first() may return;
\* rows with the same period_end are in the order the database gives them
latest_update_in_fy(rs, t, fy, asof) ==
    {r \in updates_in_fy(rs, t, fy, asof) :
        \A o \in updates_in_fy(rs, t, fy, asof) : o.pe <= r.pe}

\* the linear projection of compute_forecast_value by elapsed periods
forecast_projection(t, ytd_actual, fy, asof) ==
    CASE t.periodicity = "MONTHLY" ->
            IF months_elapsed(fy, asof) <= 0 THEN DecZero
            ELSE DecMul(DecDiv(ytd_actual, Dec(months_elapsed(fy, asof), 1)), Dec(12, 1))
      [] t.periodicity = "QUARTERLY" ->
            IF quarters_elapsed(fy, asof) <= 0 THEN DecZero
            ELSE DecMul(DecDiv(ytd_actual, Dec(quarters_elapsed(fy, asof), 1)), Dec(4, 1))
      [] OTHER ->
            IF (Min(asof, fy.end_date) - fy.start_date) + 1 <= 0 THEN DecZero
            ELSE DecMul(DecDiv(ytd_actual, Dec((Min(asof, fy.end_date) - fy.start_date) + 1, 1)),
                        Dec((fy.end_date - fy.start_date) + 1, 1))

\* compute_forecast_value(target, ytd_actual, fin_year, as_of) when
\* latest_update_in_fy returned the row latest (NoRequest: None)
compute_forecast_value(latest, t, ytd_actual, fy, asof) ==
    IF latest # NoRequest /\ latest.forecast_value # NoValue
    THEN Dec(latest.forecast_value, 1)
    ELSE forecast_projection(t, ytd_actual, fy, asof)

-----------------------------------------------------------------------------
(* SpecForecast: updates with and without a forecast are recorded and      *)
(* retired, and the forecast of the target is computed.                    *)

Monthly120 == TargetRow("T1", Dec(120, 1), "MONTHLY", Dec(95, 1), Dec(80, 1), TRUE)

ForecastTargets == {Monthly120, Quarterly100, Annual100, Milestone50(TRUE)}

\* before the year, in its second and third quarter, after its end
ForecastDays == {Date(2024, 3, 1), Date(2024, 7, 10), Date(2024, 10, 15), Date(2025, 5, 10)}

\* a period before the year, two that end on the same day, a later one
ForecastPeriods ==
    { Period(Date(2024, 1, 1), Date(2024, 3, 31)),
      FirstQuarter,
      Period(Date(2024, 6, 1), Date(2024, 6, 30)),
      Period(Date(2024, 7, 1), Date(2024, 9, 30)) }

ForecastActuals == {30, 45}

ForecastValues == {NoValue, 0, 120}

ForecastTarget == PickOne(plan.targets)

InitForecast ==
    /\ fin_year = KpaYear
    /\ today \in ForecastDays
    /\ as_of = today
    /\ cfg = [enabled |-> FALSE, grace_days |-> DefaultGraceDays]
    /\ years = IdleYears
    /\ rows = {} /\ nextId = 1 /\ reqs = <<>>
    /\ \E tg \in ForecastTargets : plan = PlanItem({tg}, DecZero, DecZero, {})
    /\ last = NoRequest
    /\ out = [status |-> "idle"]

\* an update of the target is saved
ForecastRecord ==
    \E per \in ForecastPeriods, a \in ForecastActuals, f \in ForecastValues :
        /\ nextId <= MaxForecastRows
        /\ unique_together(rows, ForecastTarget.id, per, 0)
        /\ rows' = rows \cup {ForecastRow(nextId, ForecastTarget.id, per, a, f)}
        /\ nextId' = nextId + 1
        /\ last' = [op |-> "record"]
        /\ out' = [status |-> "ok"]
        /\ UNCHANGED <<fin_year, as_of, today, cfg, years, reqs, plan>>

\* an update is retired (is_active cleared)
ForecastRetire ==
    \E r \in rows :
        /\ r.is_active
        /\ rows' = ReplaceRow(rows, r.id, [r EXCEPT !.is_active = FALSE])
        /\ last' = [op |-> "retire"]
        /\ out' = [status |-> "ok"]
        /\ UNCHANGED <<fin_year, as_of, today, cfg, years, nextId, reqs, plan>>

\* kpa_drilldown_view: t_forecast of the target
ForecastCompute ==
    \E latest \in IF latest_update_in_fy(rows, ForecastTarget, fin_year, today) = {}
                  THEN {NoRequest}
                  ELSE latest_update_in_fy(rows, ForecastTarget, fin_year, today) :
        /\ last' = [op |-> "compute_forecast_value"]
        /\ out' = [forecast |-> compute_forecast_value(latest, ForecastTarget,
                                   sum_actuals_ytd(rows, ForecastTarget, fin_year, today),
                                   fin_year, today)]
        /\ UNCHANGED <<fin_year, as_of, today, cfg, years, rows, nextId, reqs, plan>>

NextForecast ==
    \/ ForecastRecord
    \/ ForecastRetire
    \/ ForecastCompute

SpecForecast == InitForecast /\ [][NextForecast]_vars

-----------------------------------------------------------------------------
(* Claims about the forecast (SpecForecast).                               *)

\* the active updates of the target that end inside the year and by today
ForecastWindow ==
    {r \in rows : /\ r.target = ForecastTarget.id
                  /\ r.is_active
                  /\ fin_year.start_date <= r.pe
                  /\ r.pe <= fin_year.end_date
                  /\ r.pe <= today}

\* those of them that no other one follows
MostRecent == {r \in ForecastWindow : ~\E o \in ForecastWindow : o.pe > r.pe}

\* the elapsed count and the full count of the target's periodicity
ElapsedCount ==
    CASE ForecastTarget.periodicity = "MONTHLY" -> months_elapsed(fin_year, today)
      [] ForecastTarget.periodicity = "QUARTERLY" -> quarters_elapsed(fin_year, today)
      [] OTHER -> Min(today, fin_year.end_date) - fin_year.start_date + 1

FullCount ==
    CASE ForecastTarget.periodicity = "MONTHLY" -> 12
      [] ForecastTarget.periodicity = "QUARTERLY" -> 4
      [] OTHER -> fin_year.end_date - fin_year.start_date + 1

\* value = (ytd_actual / elapsed) * full, or 0 with nothing elapsed
Extrapolated(value) ==
    IF ElapsedCount <= 0 THEN value = DecZero
    ELSE DecMul(value, Dec(ElapsedCount, 1))
            = DecMul(sum_actual_value(ForecastWindow), Dec(FullCount, 1))

\* C21: the computed forecast is the explicit forecast_value of a most recent
\* active update inside the window when that update has one, and otherwise the
\* linear extrapolation of the year-to-date actual by the elapsed months,
\* quarters or days, which is 0 when nothing has elapsed.
C21_ForecastValue ==
    last.op = "compute_forecast_value" =>
        \/ \E r \in MostRecent : /\ r.forecast_value # NoValue
                                 /\ out.forecast = Dec(r.forecast_value, 1)
        \/ /\ MostRecent = {} \/ \E r \in MostRecent : r.forecast_value = NoValue
           /\ Extrapolated(out.forecast)

\* the latest update has no forecast, an older one has: the forecast is the
\* extrapolation, and it is not 0
C21_Witness ==
    /\ last.op = "compute_forecast_value"
    /\ \E r \in MostRecent : r.forecast_value = NoValue
    /\ \E o \in ForecastWindow : o \notin MostRecent /\ o.forecast_value = 120
    /\ Extrapolated(out.forecast)
    /\ out.forecast # DecZero
    /\ out.forecast # Dec(120, 1)

-----------------------------------------------------------------------------
(* The dashboard over several KPAs (core/views.py dashboard_view).         *)

MaxDashRows == 2

\* an OperationalPlanItem of a KPA
KpaItem(kpa, unit, active, targets, input_cost, cost_lines) ==
    [kpa |-> kpa, unit_subdirectorate |-> unit, is_active |-> active, targets |-> targets,
     input_cost |-> input_cost, output_cost |-> DecZero, cost_lines |-> cost_lines]

\* plan_items_qs: the active items, of the selected unit when one is selected
plan_items_qs(items, unit) ==
    {i \in items : i.is_active /\ (unit # "" => i.unit_subdirectorate = unit)}

\* kpa_items_map.get(k.id, [])
kpa_items(items, unit, k) == {i \in plan_items_qs(items, unit) : i.kpa = k}

\* the active targets of the items of a card
card_targets(its) == UNION {active_targets(i) : i \in its}

\* kpa_planned and kpa_spent: the sums of compute_item_spend over the items
RECURSIVE sum_planned(_)
sum_planned(its) ==
    IF its = {} THEN DecZero
    ELSE DecAdd(item_planned(PickOne(its)), sum_planned(its \ {PickOne(its)}))

RECURSIVE sum_spent(_, _, _)
sum_spent(its, fy, asof) ==
    IF its = {} THEN DecZero
    ELSE DecAdd(item_actual_spend(PickOne(its), fy, asof),
                sum_spent(its \ {PickOne(its)}, fy, asof))

\* the card RAG as the worst RAG of the card's targets (the mutant)
card_rag_worst_case(its, rs, fy, asof) ==
    IF \E t \in card_targets(its) : target_rag(t, rs, fy, asof) = "RED" THEN "RED"
    ELSE IF \E t \in card_targets(its) : target_rag(t, rs, fy, asof) = "AMBER" THEN "AMBER"
    ELSE IF card_targets(its) # {} THEN "GREEN"
    ELSE "RED"

\* percent = compute_percent(agg_ytd_actual, agg_ytd_target);
\* rag = compute_rag_from_percent(percent)
card_rag(its, rs, fy, asof) ==
    compute_rag_from_percent(
        compute_percent(sum_ytd_actual(card_targets(its), rs, fy, asof),
                        sum_ytd_target(card_targets(its), fy, asof)),
        NoTarget)

\* the card of KPA k
kpa_card(its, rs, fy, asof) ==
    [rag |-> card_rag(its, rs, fy, asof),
     ytd_target |-> sum_ytd_target(card_targets(its), fy, asof),
     ytd_actual |-> sum_ytd_actual(card_targets(its), rs, fy, asof),
     budget_burn_pct |-> budget_burn_pct(sum_spent(its, fy, asof), sum_planned(its))]

kpa_cards(kpas, items, unit, rs, fy, asof) ==
    [k \in kpas |-> kpa_card(kpa_items(items, unit, k), rs, fy, asof)]

\* on_track, at_risk, off_track: the cards counted by their RAG
count_cards(cards, rag) == Cardinality({k \in DOMAIN cards : cards[k].rag = rag})

\* dashboard_view for the KPAs of the selected year and the selected unit
dashboard_page(kpas, items, unit, rs, fy, asof) ==
    [kpa_cards |-> kpa_cards(kpas, items, unit, rs, fy, asof),
     on_track |-> count_cards(kpa_cards(kpas, items, unit, rs, fy, asof), "GREEN"),
     at_risk |-> count_cards(kpa_cards(kpas, items, unit, rs, fy, asof), "AMBER"),
     off_track |-> count_cards(kpa_cards(kpas, items, unit, rs, fy, asof), "RED"),
     total_kpas |-> Cardinality(kpas),
     overall_burn |-> overall_burn(sum_spent(plan_items_qs(items, unit), fy, asof),
                                   sum_planned(plan_items_qs(items, unit)))]

-----------------------------------------------------------------------------
(* SpecDashboard: three KPAs of one year; updates are recorded and the      *)
(* dashboard is opened with and without a unit filter.                     *)

DashKpas == {"K1", "K2", "K3"}

DashUnits == {"", "U1", "U2"}

DashT1 == TargetRow("T1", Dec(100, 1), "QUARTERLY", Dec(95, 1), Dec(80, 1), TRUE)
DashT2 == TargetRow("T2", Dec(100, 1), "QUARTERLY", Dec(50, 1), Dec(40, 1), TRUE)
DashT3 == TargetRow("T3", Dec(100, 1), "QUARTERLY", Dec(95, 1), Dec(80, 1), FALSE)
DashT4 == TargetRow("T4", Dec(100, 1), "QUARTERLY", Dec(95, 1), Dec(80, 1), TRUE)
DashT5 == TargetRow("T5", Dec(50, 1), "MILESTONE", Dec(95, 1), Dec(80, 1), TRUE)

\* K1: an item of each unit and a retired item; K2: one item; K3: none
DashItems ==
    { KpaItem("K1", "U1", TRUE, {DashT1, DashT3}, Dec(100, 1), {FirstQuarterCost}),
      KpaItem("K1", "U2", TRUE, {DashT2}, Dec(50, 1), {}),
      KpaItem("K1", "U1", FALSE, {DashT4}, Dec(70, 1), {SecondQuarterCost}),
      KpaItem("K2", "U1", TRUE, {DashT5}, DecZero, {}) }

DashTargetIds == {"T1", "T2", "T3", "T4", "T5"}

DashPeriods == {FirstQuarter, Period(Date(2024, 7, 1), Date(2024, 9, 30))}

DashContents == { [actual_value |-> 40, narrative |-> ""],
                  [actual_value |-> 45, narrative |-> ""],
                  [actual_value |-> 50, narrative |-> ""] }

InitDashboard ==
    /\ fin_year = KpaYear
    /\ today = Date(2024, 7, 10)
    /\ as_of = today
    /\ cfg = [enabled |-> FALSE, grace_days |-> DefaultGraceDays]
    /\ years = IdleYears
    /\ rows = {} /\ nextId = 1 /\ reqs = <<>>
    /\ plan = DashItems
    /\ last = NoRequest
    /\ out = [status |-> "idle"]

\* an update of one of the targets is saved
DashRecord ==
    \E tg \in DashTargetIds, per \in DashPeriods, content \in DashContents :
        /\ nextId <= MaxDashRows
        /\ unique_together(rows, tg, per, 0)
        /\ rows' = rows \cup {Row(nextId, tg, per, content, TRUE, FALSE)}
        /\ nextId' = nextId + 1
        /\ last' = [op |-> "record"]
        /\ out' = [status |-> "ok"]
        /\ UNCHANGED <<fin_year, as_of, today, cfg, years, reqs, plan>>

\* GET of the dashboard, ?unit= given or not
DashOpen ==
    \E unit \in DashUnits :
        /\ last' = [op |-> "dashboard_view", selected_unit |-> unit]
        /\ out' = dashboard_page(DashKpas, plan, unit, rows, fin_year, today)
        /\ UNCHANGED <<fin_year, as_of, today, cfg, years, rows, nextId, reqs, plan>>

NextDashboard ==
    \/ DashRecord
    \/ DashOpen

SpecDashboard == InitDashboard /\ [][NextDashboard]_vars

-----------------------------------------------------------------------------
(* Claims about the dashboard (SpecDashboard).                             *)

\* the active targets of the active plan items of KPA k, of any unit
KpaTargets(k) == UNION {active_targets(i) : i \in {j \in plan : j.is_active /\ j.kpa = k}}

\* the same, of the items that pass the unit filter of the request
FilteredTargets(k) ==
    UNION {active_targets(i) :
             i \in {j \in plan : /\ j.is_active /\ j.kpa = k
                                 /\ (last.selected_unit = ""
                                        \/ j.unit_subdirectorate = last.selected_unit)}}

\* the RAG of the summed figures of the targets ts under 95 / 80
SummedRag(ts) ==
    IF sum_ytd_target(ts, fin_year, today).n = 0 THEN "RED"
    ELSE IF DecGeq(DecMul(sum_ytd_actual(ts, rows, fin_year, today), Dec(100, 1)),
                   DecMul(sum_ytd_target(ts, fin_year, today), Dec(95, 1))) THEN "GREEN"
    ELSE IF DecGeq(DecMul(sum_ytd_actual(ts, rows, fin_year, today), Dec(100, 1)),
                   DecMul(sum_ytd_target(ts, fin_year, today), Dec(80, 1))) THEN "AMBER"
    ELSE "RED"

CountsMatchCards ==
    /\ out.on_track = Cardinality({k \in DashKpas : out.kpa_cards[k].rag = "GREEN"})
    /\ out.at_risk = Cardinality({k \in DashKpas : out.kpa_cards[k].rag = "AMBER"})
    /\ out.off_track = Cardinality({k \in DashKpas : out.kpa_cards[k].rag = "RED"})

\* C22 as stated: each card's RAG classifies once, under 95 / 80, the sums of
\* ytd_target and ytd_actual over all active targets of all active plan items
\* of the KPA, and the three counters count the cards by RAG.
C22_CardOverAllItems ==
    last.op = "dashboard_view" =>
        /\ \A k \in DashKpas : out.kpa_cards[k].rag = SummedRag(KpaTargets(k))
        /\ CountsMatchCards

\* C22 amended: the sums run over the active targets of the KPA's active plan
\* items that pass the request's unit filter (all of them without a filter).
C22_CardOverFilteredItems ==
    last.op = "dashboard_view" =>
        /\ \A k \in DashKpas : out.kpa_cards[k].rag = SummedRag(FilteredTargets(k))
        /\ CountsMatchCards

\* without a filter, K1 is GREEN on its sums (95 of 100) although its target
\* T2 alone is short of the target; K2 and K3 are RED
C22_Witness ==
    /\ last.op = "dashboard_view"
    /\ last.selected_unit = ""
    /\ out.kpa_cards["K1"].rag = "GREEN"
    /\ \E t \in KpaTargets("K1") :
          DecLt(sum_actuals_ytd(rows, t, fin_year, today), ytd_target_value(t, fin_year, today))
    /\ out.on_track = 1
    /\ out.off_track = 2

-----------------------------------------------------------------------------
(* SpecAudit: the ledger of the targets of one KPA, with the operations    *)
(* that retire or remove rows (core/views.py kpa_delete_view, the REST      *)
(* progress-update endpoints).                                             *)

\* the KPAs with the targets of their plan items
AuditKpas == {[id |-> "K1", targets |-> Targets]}

\* kpa.delete(): OperationalPlanItem.kpa, Target.plan_item and
\* ProgressUpdate.target are on_delete=CASCADE, so the KPA's plan items,
\* their targets and the targets' progress updates are deleted with it
kpa_delete_view(rs, k) == Outcome("ok", {r \in rs : r.target \notin k.targets})

InitAudit ==
    /\ fin_year = KpaYear
    /\ as_of = ClockDays[1]
    /\ today = ClockDays[1]
    /\ cfg \in LockOn
    /\ out = Evaluate(fin_year, as_of, today, cfg)
    /\ years = IdleYears
    /\ rows = {} /\ nextId = 1 /\ last = NoRequest /\ reqs = <<>>
    /\ plan = AuditKpas

\* POST of kpa_delete_view with confirm=yes
KpaDelete ==
    \E k \in plan :
        /\ rows' = kpa_delete_view(rows, k).rows
        /\ plan' = plan \ {k}
        /\ last' = [op |-> "kpa_delete", status |-> "ok"]
        /\ UNCHANGED <<fin_year, as_of, today, cfg, out, years, nextId, reqs>>

\* the requests on the updates of a target need the target's KPA
KpaExists == plan # {}

AuditSaveDraft == KpaExists /\ SaveDraft

AuditWizardSubmit == KpaExists /\ WizardSubmit

AuditRestCreate == KpaExists /\ RestCreate

AuditApprove == KpaExists /\ Approve

AuditReject == KpaExists /\ Reject

AuditSoftDelete == KpaExists /\ SoftDelete

AuditRestDestroy == KpaExists /\ RestDestroy

NextAudit ==
    \/ AuditSaveDraft
    \/ AuditWizardSubmit
    \/ AuditRestCreate
    \/ AuditApprove
    \/ AuditReject
    \/ AuditSoftDelete
    \/ AuditRestDestroy
    \/ KpaDelete

SpecAudit == InitAudit /\ [][NextAudit]_vars

\* C23: a ProgressUpdate is never hard-deleted: every row of a state is a row
\* (by id) of the next state, whatever operation is applied.
C23_NeverHardDeleted ==
    [][\A r \in rows : \E n \in rows' : n.id = r.id]_vars

-----------------------------------------------------------------------------
(* SpecTargets: targets are created through the target form and created    *)
(* and updated through the REST target endpoints (progress/models.py       *)
(* Target, progress/forms.py TargetForm, core/api_views.py TargetViewSet).  *)

MaxTargets == 2

\* the thresholds a request may carry, as percentages
ThresholdInputs == {-5, 60, 80, 95, 120}

TargetPayloads == [green_threshold : ThresholdInputs, amber_threshold : ThresholdInputs]

\* MinValueValidator(Decimal('0.00')), MaxValueValidator(Decimal('100.00'))
threshold_valid(x) == 0 <= x /\ x <= 100

\* the validation TargetForm and TargetSerializer take from the model fields
target_is_valid(p) == threshold_valid(p.green_threshold) /\ threshold_valid(p.amber_threshold)

\* a Target row with the thresholds of the request
StoredTarget(id, p) ==
    [id |-> id, green_threshold |-> Dec(p.green_threshold, 1),
     amber_threshold |-> Dec(p.amber_threshold, 1)]

\* target_create_view POST: form.is_valid(), then target.save()
target_create_view(ts, id, p) ==
    IF target_is_valid(p) THEN [status |-> "ok", targets |-> ts \cup {StoredTarget(id, p)}]
    ELSE [status |-> "invalid", targets |-> ts]

\* TargetViewSet.create (POST /api/targets/)
target_viewset_create(ts, id, p) ==
    IF target_is_valid(p) THEN [status |-> "ok", targets |-> ts \cup {StoredTarget(id, p)}]
    ELSE [status |-> "invalid", targets |-> ts]

\* TargetViewSet.update (PUT /api/targets/<id>/)
target_viewset_update(ts, id, p) ==
    IF target_is_valid(p)
    THEN [status |-> "ok", targets |-> {IF t.id = id THEN StoredTarget(id, p) ELSE t : t \in ts}]
    ELSE [status |-> "invalid", targets |-> ts]

\* TargetViewSet.partial_update (PATCH /api/targets/<id>/) of amber_threshold
target_viewset_patch_amber(ts, id, amber) ==
    IF threshold_valid(amber)
    THEN [status |-> "ok",
          targets |-> {IF t.id = id THEN [t EXCEPT !.amber_threshold = Dec(amber, 1)] ELSE t :
                          t \in ts}]
    ELSE [status |-> "invalid", targets |-> ts]

InitTargets ==
    /\ fin_year = KpaYear
    /\ as_of = ClockDays[1]
    /\ today = ClockDays[1]
    /\ cfg = [enabled |-> FALSE, grace_days |-> DefaultGraceDays]
    /\ years = IdleYears
    /\ rows = {} /\ nextId = 1 /\ last = NoRequest /\ reqs = <<>>
    /\ plan = {}
    /\ out = [status |-> "idle"]

\* the answer of a target request is committed
TargetForm ==
    \E p \in TargetPayloads :
        /\ nextId <= MaxTargets
        /\ plan' = target_create_view(plan, nextId, p).targets
        /\ nextId' = IF target_is_valid(p) THEN nextId + 1 ELSE nextId
        /\ last' = [op |-> "target_create_view"]
        /\ out' = [status |-> target_create_view(plan, nextId, p).status]
        /\ UNCHANGED <<fin_year, as_of, today, cfg, years, rows, reqs>>

TargetRestCreate ==
    \E p \in TargetPayloads :
        /\ nextId <= MaxTargets
        /\ plan' = target_viewset_create(plan, nextId, p).targets
        /\ nextId' = IF target_is_valid(p) THEN nextId + 1 ELSE nextId
        /\ last' = [op |-> "create"]
        /\ out' = [status |-> target_viewset_create(plan, nextId, p).status]
        /\ UNCHANGED <<fin_year, as_of, today, cfg, years, rows, reqs>>

TargetRestUpdate ==
    \E t \in plan, p \in TargetPayloads :
        /\ plan' = target_viewset_update(plan, t.id, p).targets
        /\ last' = [op |-> "update"]
        /\ out' = [status |-> target_viewset_update(plan, t.id, p).status]
        /\ UNCHANGED <<fin_year, as_of, today, cfg, years, rows, nextId, reqs>>

TargetRestPatch ==
    \E t \in plan, amber \in ThresholdInputs :
        /\ plan' = target_viewset_patch_amber(plan, t.id, amber).targets
        /\ last' = [op |-> "partial_update"]
        /\ out' = [status |-> target_viewset_patch_amber(plan, t.id, amber).status]
        /\ UNCHANGED <<fin_year, as_of, today, cfg, years, rows, nextId, reqs>>

NextTargets ==
    \/ TargetForm
    \/ TargetRestCreate
    \/ TargetRestUpdate
    \/ TargetRestPatch

SpecTargets == InitTargets /\ [][NextTargets]_vars

\* C24: every persisted Target has green_threshold >= amber_threshold, after
\* any sequence of target creates and updates.
C24_GreenAtLeastAmber ==
    \A t \in plan : DecGeq(t.green_threshold, t.amber_threshold)

-----------------------------------------------------------------------------
(* SpecApproval: updates are submitted through the manager's form and the   *)
(* wizard, and approved or rejected (core/views_manager.py                  *)
(* manager_progress_approval_view).                                        *)

\* approval_comments of a request
ApprovalComments == {"", "fine", "redo"}

\* approval_comments of a row: '' until an approval or a rejection sets it
comments_of(r) == IF "approval_comments" \in DOMAIN r THEN r.approval_comments ELSE ""

\* progress_update.approval_comments = approval_comments
with_comments(r, c) ==
    [f \in DOMAIN r \cup {"approval_comments"} |->
        IF f = "approval_comments" THEN c ELSE r[f]]

\* manager_progress_approval_view without the test of is_submitted (the mutant)
manager_progress_approval_view_unguarded(rs, id, action, c) ==
    IF ~\E r \in rs : r.id = id /\ r.is_active THEN Outcome("not_found", rs)
    ELSE IF action = "approve"
    THEN Outcome("ok", ReplaceRow(rs, id, with_comments(approve(RowById(rs, id)), c)))
    ELSE Outcome("ok", ReplaceRow(rs, id, with_comments(reject(RowById(rs, id)), c)))

\* manager_progress_approval_view POST with action 'approve' or 'reject':
\* get_object_or_404(..., is_active=True), the test of is_submitted, then the
\* status fields are written
manager_progress_approval_view(rs, id, action, c) ==
    IF ~\E r \in rs : r.id = id /\ r.is_active THEN Outcome("not_found", rs)
    ELSE IF ~RowById(rs, id).is_submitted THEN Outcome("not_submitted", rs)
    ELSE IF action = "approve"
    THEN Outcome("ok", ReplaceRow(rs, id, with_comments(approve(RowById(rs, id)), c)))
    ELSE Outcome("ok", ReplaceRow(rs, id, with_comments(reject(RowById(rs, id)), c)))

InitApproval ==
    /\ fin_year = KpaYear
    /\ as_of = ClockDays[1]
    /\ today = ClockDays[1]
    /\ cfg = [enabled |-> FALSE, grace_days |-> DefaultGraceDays]
    /\ out = Evaluate(fin_year, as_of, today, cfg)
    /\ years = IdleYears
    /\ IdleLedger

\* POST of manager_progress_approval_view
ApprovalPost ==
    \E id \in 1..MaxRows, action \in {"approve", "reject"}, c \in ApprovalComments :
        /\ rows' = manager_progress_approval_view(rows, id, action, c).rows
        /\ last' = [op |-> action, id |-> id, approval_comments |-> c,
                    status |-> manager_progress_approval_view(rows, id, action, c).status]
        /\ UNCHANGED <<fin_year, as_of, today, cfg, out, years, nextId, reqs, plan>>

NextApproval ==
    \/ WizardSubmit
    \/ ManagerVisit
    \/ ManagerPost
    \/ ApprovalPost

SpecApproval == InitApproval /\ [][NextApproval]_vars

-----------------------------------------------------------------------------
(* Claims about the approval workflow (SpecApproval).                      *)

\* the request of this step follows, on the same update, a request op that
\* took effect in the step before
Follows(op, then) ==
    /\ last.op = op /\ last.status = "ok"
    /\ last'.op = then /\ last'.id = last.id

\* the request of this step took effect on its update
ApproveTookEffect ==
    /\ last'.status = "ok"
    /\ \E n \in rows' : /\ n.id = last'.id
                        /\ n.is_approved
                        /\ comments_of(n) = last'.approval_comments

RejectTookEffect ==
    /\ last'.status = "ok"
    /\ \E n \in rows' : /\ n.id = last'.id
                        /\ ~n.is_submitted /\ ~n.is_approved
                        /\ comments_of(n) = last'.approval_comments

\* C25 as stated: a reject right after an approve, and an approve right after
\* a reject (no resubmission in between), each take effect and overwrite the
\* status fields.
C25_NoStateGuard ==
    [][/\ Follows("approve", "reject") => RejectTookEffect
       /\ Follows("reject", "approve") => ApproveTookEffect]_vars

\* C25 amended: a reject right after an approve takes effect and overwrites
\* is_submitted, is_approved and approval_comments; an approve right after a
\* reject is refused, because the update is no longer submitted, and changes
\* no row.
C25_GuardedBySubmission ==
    [][/\ Follows("approve", "reject") => RejectTookEffect
       /\ Follows("reject", "approve") =>
             (last'.status = "not_submitted" /\ rows' = rows)]_vars

\* an approve was refused on an update that carries the comments of its
\* rejection and is neither submitted nor approved
C25_Witness ==
    /\ last.op = "approve" /\ last.status = "not_submitted"
    /\ \E r \in rows : /\ r.id = last.id
                       /\ comments_of(r) = "redo"
                       /\ ~r.is_submitted /\ ~r.is_approved

-----------------------------------------------------------------------------
(* SpecFYRace: two FinancialYear.save() calls run concurrently.  save()    *)
(* issues two statements, each committed on its own (core/models.py        *)
(* 67-71): the update of the active rows, then the write of its own row.   *)

\* the FinancialYear tables save() can leave behind (at most one active row)
SavedYearTables ==
    {tbl \in [YearIds -> {NoYear, [exists |-> TRUE, is_active |-> FALSE],
                                  [exists |-> TRUE, is_active |-> TRUE]}] :
        Cardinality({y \in YearIds : tbl[y].is_active}) <= 1}

\* FinancialYear.objects.filter(is_active=True).update(is_active=False)
deactivate_active_years(tbl) ==
    [z \in DOMAIN tbl |-> IF tbl[z].exists /\ tbl[z].is_active
                          THEN [tbl[z] EXCEPT !.is_active = FALSE]
                          ELSE tbl[z]]

\* a save() between its two statements
Saving(c) == reqs[c].pc = "write"

InitFYRace ==
    /\ years \in SavedYearTables
    /\ fin_year = FY(2024, 4, 1, 2025, 3, 31)
    /\ as_of = fin_year.start_date
    /\ today = as_of
    /\ cfg = [enabled |-> FALSE, grace_days |-> DefaultGraceDays]
    /\ out = Evaluate(fin_year, as_of, today, cfg)
    /\ rows = {}
    /\ nextId = 1
    /\ last = NoRequest
    /\ reqs = [c \in Clients |-> IdleRequest]
    /\ plan = IdlePlan

\* save(), first statement: if self.is_active, every active row is updated
\* to is_active = False
FYDeactivateOthers(c) ==
    /\ reqs[c].pc = "idle"
    /\ \E y \in YearIds, active \in BOOLEAN,
          overlap \in {\E d \in Clients \ {c} : Saving(d)} :
          /\ years' = IF active THEN deactivate_active_years(years) ELSE years
          /\ reqs' = [reqs EXCEPT ![c] = [pc |-> "write", id |-> y,
                                          is_active |-> active, overlap |-> overlap]]
    /\ UNCHANGED <<fin_year, as_of, today, cfg, out, rows, nextId, last, plan>>

\* save(), second statement: super().save() writes the row itself
FYWriteOwnRow(c) ==
    /\ reqs[c].pc = "write"
    /\ years' = FinancialYear_save_own_row_only(years, reqs[c].id, reqs[c].is_active)
    /\ reqs' = [reqs EXCEPT ![c] = [pc |-> "done", id |-> reqs[c].id,
                                    is_active |-> reqs[c].is_active,
                                    overlap |-> reqs[c].overlap]]
    /\ last' = [op |-> "fy_save", id |-> reqs[c].id, is_active |-> reqs[c].is_active]
    /\ UNCHANGED <<fin_year, as_of, today, cfg, out, rows, nextId, plan>>

NextFYRace ==
    \/ \E c \in Clients : FYDeactivateOthers(c)
    \/ \E c \in Clients : FYWriteOwnRow(c)

SpecFYRace == InitFYRace /\ [][NextFYRace]_vars

\* both saves have completed, they activated different years, and one began
\* while the other was between its two statements
ConcurrentActivations ==
    \E c \in Clients : \E d \in Clients \ {c} :
        /\ reqs[c].pc = "done" /\ reqs[d].pc = "done"
        /\ reqs[c].is_active /\ reqs[d].is_active
        /\ reqs[c].id # reqs[d].id
        /\ reqs[c].overlap \/ reqs[d].overlap

\* C26: when two FinancialYear saves with is_active = true for different
\* years run concurrently, in every interleaving of their deactivate step and
\* their row write, at most one FinancialYear is active once both have
\* completed.
C26_AtomicActivation ==
    ConcurrentActivations => Cardinality(ActiveYears) <= 1

\* the same for two saves that did not overlap (holds)
C26_SequentialActivations ==
    (/\ \A c \in Clients : reqs[c].pc = "done" /\ ~reqs[c].overlap)
        => Cardinality(ActiveYears) <= 1

-----------------------------------------------------------------------------
(* SpecOverdue: Target.is_overdue_for_update (progress/models.py 128-150)  *)
(* as the manager's dashboard calls it (core/views_manager.py 92).         *)

MaxOverdueRows == 2

\* self.progress_updates.filter(is_active=True)
active_updates(rs, tg) == {r \in rs : r.target = tg.id /\ r.is_active}

\* .order_by('-period_end').first().period_end
latest_period_end(rs, tg) ==
    PickOne({r.pe : r \in {r \in active_updates(rs, tg) :
                              \A o \in active_updates(rs, tg) : o.pe <= r.pe}})

\* is_overdue_for_update comparing with the stored periodicity values (the
\* mutant)
is_overdue_for_update_stored_values(tg, rs, t) ==
    IF tg.due_date = NoDate THEN FALSE
    ELSE IF active_updates(rs, tg) = {} THEN t > tg.due_date
    ELSE CASE tg.periodicity = "MONTHLY" -> t > AddMonths(latest_period_end(rs, tg), 1)
           [] tg.periodicity = "QUARTERLY" -> t > AddMonths(latest_period_end(rs, tg), 3)
           [] tg.periodicity = "ANNUAL" -> t > AddMonths(latest_period_end(rs, tg), 12)
           [] OTHER -> FALSE

\* Target.is_overdue_for_update with date.today() = t
is_overdue_for_update(tg, rs, t) ==
    IF tg.due_date = NoDate THEN FALSE
    ELSE IF active_updates(rs, tg) = {} THEN t > tg.due_date
    ELSE CASE tg.periodicity = "monthly" -> t > AddMonths(latest_period_end(rs, tg), 1)
           [] tg.periodicity = "quarterly" -> t > AddMonths(latest_period_end(rs, tg), 3)
           [] tg.periodicity = "annually" -> t > AddMonths(latest_period_end(rs, tg), 12)
           [] OTHER -> FALSE

\* targets of every stored periodicity, due at the end of the year or in June
OverdueTargets ==
    {[TargetRow("T1", Dec(100, 1), per, Dec(95, 1), Dec(80, 1), TRUE) EXCEPT !.due_date = d] :
        per \in PeriodicityChoices, d \in {Date(2024, 6, 30), KpaYear.end_date}}

\* inside the year, after its end, more than a year after every period
OverdueDays == <<Date(2024, 5, 15), Date(2024, 8, 15), Date(2025, 4, 10), Date(2026, 6, 1)>>

OverdueTarget == PickOne(plan.targets)

InitOverdue ==
    /\ fin_year = KpaYear
    /\ today = OverdueDays[1]
    /\ as_of = today
    /\ cfg = [enabled |-> FALSE, grace_days |-> DefaultGraceDays]
    /\ years = IdleYears
    /\ rows = {} /\ nextId = 1 /\ reqs = <<>>
    /\ \E tg \in OverdueTargets : plan = PlanItem({tg}, DecZero, DecZero, {})
    /\ last = NoRequest
    /\ out = [status |-> "idle"]

\* date.today() moves on
OverdueTick ==
    \E i \in 1..(Len(OverdueDays) - 1) :
        /\ today = OverdueDays[i]
        /\ today' = OverdueDays[i + 1]
        /\ as_of' = OverdueDays[i + 1]
        /\ last' = [op |-> "tick"]
        /\ out' = [status |-> "ok"]
        /\ UNCHANGED <<fin_year, cfg, years, rows, nextId, reqs, plan>>

\* an update of the target is saved
OverdueRecord ==
    \E per \in ForecastPeriods, a \in ForecastActuals :
        /\ nextId <= MaxOverdueRows
        /\ unique_together(rows, OverdueTarget.id, per, 0)
        /\ rows' = rows \cup {ForecastRow(nextId, OverdueTarget.id, per, a, NoValue)}
        /\ nextId' = nextId + 1
        /\ last' = [op |-> "record"]
        /\ out' = [status |-> "ok"]
        /\ UNCHANGED <<fin_year, as_of, today, cfg, years, reqs, plan>>

\* an update is retired (is_active cleared)
OverdueRetire ==
    \E r \in rows :
        /\ r.is_active
        /\ rows' = ReplaceRow(rows, r.id, [r EXCEPT !.is_active = FALSE])
        /\ last' = [op |-> "retire"]
        /\ out' = [status |-> "ok"]
        /\ UNCHANGED <<fin_year, as_of, today, cfg, years, nextId, reqs, plan>>

\* manager_dashboard_view: target.is_overdue_for_update()
OverdueCheck ==
    /\ last' = [op |-> "is_overdue_for_update"]
    /\ out' = [is_overdue |-> is_overdue_for_update(OverdueTarget, rows, today)]
    /\ UNCHANGED <<fin_year, as_of, today, cfg, years, rows, nextId, reqs, plan>>

NextOverdue ==
    \/ OverdueTick
    \/ OverdueRecord
    \/ OverdueRetire
    \/ OverdueCheck

SpecOverdue == InitOverdue /\ [][NextOverdue]_vars

-----------------------------------------------------------------------------
(* Claims about overdue targets (SpecOverdue).                             *)

\* the target's active updates
OverdueUpdates == {r \in rows : r.target = OverdueTarget.id /\ r.is_active}

\* C27: for a target with a stored periodicity (MONTHLY, QUARTERLY, ANNUAL,
\* MILESTONE) and at least one active update, is_overdue_for_update is false
\* whatever the date and however old the latest update; a target is reported
\* overdue only when it has no active update and today is after its due_date.
C27_OverdueOnlyWithoutUpdates ==
    last.op = "is_overdue_for_update" =>
        /\ (OverdueTarget.periodicity \in PeriodicityChoices /\ OverdueUpdates # {})
              => ~out.is_overdue
        /\ out.is_overdue => (OverdueUpdates = {} /\ today > OverdueTarget.due_date)
        /\ (OverdueUpdates = {} /\ today > OverdueTarget.due_date) => out.is_overdue

\* a MONTHLY target whose latest active update ended more than a year ago is
\* reported as not overdue
C27_Witness ==
    /\ last.op = "is_overdue_for_update"
    /\ ~out.is_overdue
    /\ OverdueTarget.periodicity = "MONTHLY"
    /\ OverdueUpdates # {}
    /\ \A r \in OverdueUpdates : today > AddMonths(r.pe, 12)

-----------------------------------------------------------------------------
(* SpecWorkflow: the write paths of the submission workflow together:      *)
(* draft saves, the manager's form, the wizard, approvals and rejections.  *)

NextWorkflow ==
    \/ SaveDraft
    \/ ManagerVisit
    \/ ManagerPost
    \/ WizardSubmit
    \/ ApprovalPost

SpecWorkflow == InitApproval /\ [][NextWorkflow]_vars

\* C28: in every reachable state every ProgressUpdate with is_approved = true
\* has is_submitted = true, whatever draft saves (whose payload may carry
\* is_approved), manager form saves, wizard submissions, approvals and
\* rejections have been applied.
C28_ApprovedImpliesSubmitted ==
    \A r \in rows : r.is_approved => r.is_submitted

-----------------------------------------------------------------------------
(* SpecDraftRace: a draft save, split into validation, lookup and write,   *)
(* runs while the manager's form, the wizard and the approval view serve    *)
(* other requests (each of those writes in one step).                      *)

InitDraftRace ==
    /\ fin_year = KpaYear
    /\ as_of = ClockDays[1]
    /\ today = ClockDays[1]
    /\ cfg = [enabled |-> FALSE, grace_days |-> DefaultGraceDays]
    /\ out = Evaluate(fin_year, as_of, today, cfg)
    /\ years = IdleYears
    /\ rows = {}
    /\ nextId = 1
    /\ last = NoRequest
    /\ reqs = [c \in Clients |-> IdleRequest]
    /\ plan = IdlePlan

\* the client whose editor autosaves
DraftClient == 1

\* the number of rows created in a run of the race
MaxRaceRows == 1

RaceBound == nextId' <= MaxRaceRows + 1

RaceDraftValidate == DraftValidate(DraftClient)

RaceDraftLookup == DraftLookup(DraftClient)

RaceDraftWrite == DraftWrite(DraftClient) /\ RaceBound

RaceManagerVisit == ManagerVisit /\ RaceBound

RaceManagerPost == ManagerPost /\ RaceBound

RaceWizardSubmit == WizardSubmit /\ RaceBound

NextDraftRace ==
    \/ RaceDraftValidate
    \/ RaceDraftLookup
    \/ RaceDraftWrite
    \/ RaceManagerVisit
    \/ RaceManagerPost
    \/ RaceWizardSubmit
    \/ ApprovalPost

SpecDraftRace == InitDraftRace /\ [][NextDraftRace]_vars

\* this step is the write of a draft save
DraftWriteApplied == \E c \in Clients : reqs[c].pc = "write" /\ reqs'[c].pc = "done"

\* C29: the write of a draft save never changes an update that is submitted
\* at the moment the write is applied: however a draft save interleaves with
\* a submit or an approve of the same update, the submitted (or approved)
\* update keeps its status and its values.
C29_DraftSparesSubmitted ==
    [][DraftWriteApplied => \A r \in rows : r.is_submitted => r \in rows']_vars

-----------------------------------------------------------------------------
(* SpecYtdPair: Target.ytd_target (progress/models.py) and                 *)
(* ytd_target_value (core/views.py) evaluated on the same day, day after   *)
(* day through a financial year that runs from 1 April to 31 March.        *)

\* the financial years from 1 April to 31 March
AprilToMarchYears ==
    {fy \in FinYears : /\ MonthOf(fy.start_date) = 4 /\ DayOf(fy.start_date) = 1
                       /\ MonthOf(fy.end_date) = 3 /\ DayOf(fy.end_date) = 31
                       /\ YearOf(fy.end_date) = YearOf(fy.start_date) + 1}

\* targets of every periodicity, due at the end of the year
YtdPairTargets(fy) == {[tg EXCEPT !.due_date = fy.end_date] : tg \in YtdTargets}

\* both calculators on day t
ytd_pair(tg, fy, t) ==
    [model |-> Target_ytd_target(tg, t), view |-> ytd_target_value(tg, fy, t)]

InitYtdPair ==
    /\ fin_year \in AprilToMarchYears
    /\ as_of = fin_year.start_date
    /\ today = as_of
    /\ cfg = [enabled |-> FALSE, grace_days |-> DefaultGraceDays]
    /\ years = IdleYears
    /\ rows = {} /\ nextId = 1 /\ reqs = <<>>
    /\ \E tg \in YtdPairTargets(fin_year) : plan = PlanItem({tg}, DecZero, DecZero, {})
    /\ last = [op |-> "ytd_target"]
    /\ out = ytd_pair(YtdTarget, fin_year, today)

\* date.today() and as_of advance by a day and both values are computed again
NextYtdPairDay ==
    /\ today < fin_year.end_date
    /\ today' = today + 1
    /\ as_of' = today + 1
    /\ out' = ytd_pair(YtdTarget, fin_year, today + 1)
    /\ UNCHANGED <<fin_year, cfg, years, rows, nextId, last, reqs, plan>>

NextYtdPair == NextYtdPairDay

SpecYtdPair == InitYtdPair /\ [][NextYtdPair]_vars

\* C30: for a financial year running 1 April to 31 March, a target due at
\* the year's end and any today within the year, Target.ytd_target equals
\* ytd_target_value(target, fy, today), for ANNUAL, QUARTERLY, MONTHLY and
\* MILESTONE targets.
C30_CalculatorsAgree == out.model = out.view

\* the same for the periodicities other than ANNUAL
YtdPairAgreeUnlessAnnual ==
    YtdTarget.periodicity # "ANNUAL" => out.model = out.view

=============================================================================
